---- MODULE Spec2Model ----
(***************************************************************************)
(* Model of ssh_gpu_monitor: AsyncGPUChecker (main.py), GPUTable           *)
(* (src/table_display.py) and the entry point main().                      *)
(*                                                                         *)
(* Texts (Python str) are sequences of tokens.  A token is either one of   *)
(* the separator characters the code looks for ("\n", "|", ":", " ") or a  *)
(* word that contains none of them at its ends; len() of a text is the sum *)
(* of the token lengths.                                                   *)
(***************************************************************************)
EXTENDS Integers, Sequences, FiniteSets, TLC

\* ---------------------------------------------------------------- bounds
NumHosts == 2
MaxRounds == 2
MaxInterrupts == 2
\* faults injected into the guarded calls (FaultSpec)
MaxFaults == 1
\* SSH_TIMEOUT in clock ticks (TimedSpec)
TimeoutTicks == 2
\* update_table calls of the stand-alone GPUTable (RenderSpec)
MaxRenders == 3
\* <gpu> nodes of a document handed to the parser (ParseSpec)
MaxGpus == 3
\* individual entries, patterns and pattern numbers of a configuration (TargetsSpec)
MaxIndividual == 2
MaxPatterns == 1
MaxNumber == 3

Targets == 1..NumHosts

\* ----------------------------------------------------------------- texts
NoField == <<"<None>">>
\* the .text of an element that has no text: None
NoText == <<"<no text>">>

RECURSIVE TextLenFrom(_, _)
TextLenFrom(t, i) == IF i > Len(t) THEN 0 ELSE Len(t[i]) + TextLenFrom(t, i + 1)

\* len(t)
TextLen(t) == TextLenFrom(t, 1)

StartsWith(t, p) == Len(t) >= Len(p) /\ SubSeq(t, 1, Len(p)) = p

EndsWith(t, s) == Len(t) >= Len(s) /\ SubSeq(t, Len(t) - Len(s) + 1, Len(t)) = s

\* str.removesuffix
RemoveSuffix(t, s) == IF EndsWith(t, s) THEN SubSeq(t, 1, Len(t) - Len(s)) ELSE t

\* '\n'.join(lines)
RECURSIVE JoinLines(_)
JoinLines(ls) ==
    IF ls = <<>> THEN <<>>
    ELSE IF Len(ls) = 1 THEN Head(ls)
    ELSE Head(ls) \o <<"\n">> \o JoinLines(Tail(ls))

\* the positions of the token sep in t
Occurrences(t, sep) == {i \in 1..Len(t) : t[i] = sep}

\* str.split(sep) for a separator that is one token: the pieces between the
\* start of the text, the occurrences of sep in ascending order, and its end
Split(t, sep) ==
    LET at == Occurrences(t, sep)
        n == Cardinality(at)
        cut == [k \in 0..(n + 1) |->
                   IF k = 0 THEN 0
                   ELSE IF k = n + 1 THEN Len(t) + 1
                   ELSE CHOOSE i \in at : Cardinality({j \in at : j < i}) = k - 1]
    IN [k \in 1..(n + 1) |-> SubSeq(t, cut[k - 1] + 1, cut[k] - 1)]

IsSpace(tok) == tok \in {" ", "\n"}

\* str.strip(): from the first to the last token that is no whitespace
Strip(t) ==
    LET solid == {i \in 1..Len(t) : ~IsSpace(t[i])} IN
    IF solid = {} THEN <<>>
    ELSE SubSeq(t, CHOOSE i \in solid : \A j \in solid : i <= j,
                   CHOOSE i \in solid : \A j \in solid : i >= j)

Max(a, b) == IF a >= b THEN a ELSE b

\* str(exc) of the exceptions the libraries raise
MsgProcessError == <<"Process exited with non-zero exit status 1">>
MsgConnectionLost == <<"Connection lost">>
MsgOSError == <<"Broken pipe">>
MsgPermissionDenied == <<"Permission denied">>
MsgChannelOpen == <<"Connection refused">>
MsgXMLSyntax == <<"syntax error", ":", " ", "line 1, column 0">>
MsgNoneText == <<"'NoneType' object has no attribute 'text'">>
MsgFormatNone == <<"unsupported format string passed to NoneType.__format__">>
StderrText == <<"nvidia-smi", ":", " ", "command not found">>

\* ------------------------------------------------------------ host names
\* target.host of the h-th configured target.  The configuration lists the
\* hosts in descending name order, the first one by its full name.
HostName(h) ==
    <<"gpu0" \o ToString(NumHosts + 1 - h)
        \o (IF h = 1 THEN ".cluster.example.org" ELSE "")>>

\* HostName(g) < HostName(h) as Python compares str
NameBefore(g, h) == g > h

\* ---------------------------------------------------------- config_loader
\* dict.get(key, default) of a key the entry does not have
Absent == <<"<absent>">>

DefaultUsername == <<"monitor">>
DefaultKeyPath == <<"~/.ssh/id_rsa">>

Target(host, username, key_path) ==
    [host |-> host, username |-> username, key_path |-> key_path]

Get(value, default) == IF value = Absent THEN default ELSE value

\* one entry of config['targets']['individual']: a str, or a dict with overrides
IndividualTarget(entry, cfg) ==
    IF entry.isstr
    THEN Target(entry.host, cfg.username, cfg.key_path)
    ELSE Target(entry.host, Get(entry.username, cfg.username), Get(entry.key_path, cfg.key_path))

\* '{number:02}'
TwoDigits(x) == IF x < 10 THEN "0" \o ToString(x) ELSE ToString(x)

\* pattern['format'].format(prefix=..., number=x) for "{prefix}{number:02}"
Format(pattern, x) == <<pattern.prefix \o TwoDigits(x)>>

\* a comprehension over range(start, end) that leaves out the last number
ExpandUpToEnd(pattern, cfg) ==
    [i \in 1..(IF pattern.end > pattern.start THEN pattern.end - pattern.start ELSE 0) |->
        Target(Format(pattern, pattern.start + i - 1),
               Get(pattern.username, cfg.username), Get(pattern.key_path, cfg.key_path))]

\* the list comprehension over range(pattern['start'], pattern['end'] + 1)
Expand(pattern, cfg) ==
    [i \in 1..(IF pattern.end >= pattern.start THEN pattern.end - pattern.start + 1 ELSE 0) |->
        Target(Format(pattern, pattern.start + i - 1),
               Get(pattern.username, cfg.username), Get(pattern.key_path, cfg.key_path))]

\* 'for pattern in config['targets']['patterns']: targets.extend(...)'
RECURSIVE ExpandAll(_, _, _)
ExpandAll(patterns, cfg, acc) ==
    IF patterns = <<>> THEN acc
    ELSE ExpandAll(Tail(patterns), cfg, acc \o Expand(Head(patterns), cfg))

\* a loop that lets a later target with the same host replace the earlier one
RECURSIVE UniqueLast(_, _, _)
UniqueLast(ts, seen, unique_targets) ==
    IF ts = <<>> THEN unique_targets
    ELSE IF Head(ts).host \in seen
         THEN UniqueLast(Tail(ts), seen,
                  [k \in 1..Len(unique_targets) |->
                      IF unique_targets[k].host = Head(ts).host THEN Head(ts)
                      ELSE unique_targets[k]])
         ELSE UniqueLast(Tail(ts), seen \cup {Head(ts).host}, Append(unique_targets, Head(ts)))

\* 'for target in targets: if target.host not in seen: ...'
RECURSIVE Unique(_, _, _)
Unique(ts, seen, unique_targets) ==
    IF ts = <<>> THEN unique_targets
    ELSE IF Head(ts).host \in seen
         THEN Unique(Tail(ts), seen, unique_targets)
         ELSE Unique(Tail(ts), seen \cup {Head(ts).host}, Append(unique_targets, Head(ts)))

\* the list before the duplicates are removed: individual targets, then patterns
AllTargets(cfg) ==
    ExpandAll(cfg.patterns, cfg,
              [k \in 1..Len(cfg.individual) |-> IndividualTarget(cfg.individual[k], cfg)])

generate_targets(cfg) == Unique(AllTargets(cfg), {}, <<>>)

\* the configuration of the monitored cluster: the hosts, as individual targets
DefaultConfig ==
    [username |-> DefaultUsername, key_path |-> DefaultKeyPath,
     individual |-> [h \in 1..NumHosts |->
                        [isstr |-> TRUE, host |-> HostName(h), username |-> Absent,
                         key_path |-> Absent]],
     patterns |-> <<>>]

\* ------------------------------------------------------- remote documents
\* A diagnostic document: malformed, or a list of <gpu> nodes.
GpuTesla == [product_name |-> <<"Tesla">>, procs |-> <<<<"p1">>, <<"p2">>>>,
             gpu_util |-> <<"42", " ", "%">>,
             used |-> <<"100", " ", "MiB">>, total |-> <<"16000", " ", "MiB">>]

GpuNoName == [GpuTesla EXCEPT !.product_name = NoField]

GpuLaptop == [product_name |-> <<"NVIDIA GeForce RTX 4090 Laptop GPU">>, procs |-> NoField,
              gpu_util |-> <<"100", " ", "%">>,
              used |-> <<"40000", " ", "MiB">>, total |-> <<"81920", " ", "MiB">>]

GpuEmptyName == [GpuTesla EXCEPT !.product_name = NoText]

GpuNoUtil == [GpuLaptop EXCEPT !.gpu_util = NoField]

\* a product name that holds the character the status line is split at
GpuPipe == [GpuLaptop EXCEPT !.product_name = <<"RTX", "|", "6000">>]

DocMalformed == [wellformed |-> FALSE, gpus |-> <<>>]
DocOne == [wellformed |-> TRUE, gpus |-> <<GpuTesla>>]
DocPartial == [wellformed |-> TRUE, gpus |-> <<GpuTesla, GpuNoName>>]
DocTwo == [wellformed |-> TRUE, gpus |-> <<GpuTesla, GpuLaptop>>]
DocNoGpu == [wellformed |-> TRUE, gpus |-> <<>>]
DocPipe == [wellformed |-> TRUE, gpus |-> <<GpuTesla, GpuPipe>>]

Docs == {DocMalformed, DocOne, DocPartial, DocTwo, DocNoGpu, DocPipe}

\* exit_status is None when the channel closes without an exit status
NoStatus == -1

\* What the remote end can do with one 'nvidia-smi -q -x' command.
AllReplies ==
    {[kind |-> "timeout"], [kind |-> "ssh_error"], [kind |-> "os_error"]}
    \cup {[kind |-> "completed", exit_status |-> e, stderr |-> StderrText, doc |-> DocMalformed] :
             e \in {1, NoStatus}}
    \cup {[kind |-> "completed", exit_status |-> 0, stderr |-> <<>>, doc |-> d] : d \in Docs}

\* The replies the hosts of the polling loop draw from: one per branch of
\* check_single_target (TimeoutError, asyncssh.Error raised for a non-zero exit,
\* malformed and well-formed document).
Replies ==
    {r \in AllReplies :
        /\ r.kind \in {"timeout", "completed"}
        /\ r.kind = "completed" => r.exit_status # NoStatus /\ r.doc \in {DocMalformed, DocOne}}

\* ---------------------------------------------------------------- GPUInfo
Spaces(n) == [i \in 1..n |-> " "]

\* f'{t:w}' : left-aligned, padded to width w
PadRight(t, w) == t \o Spaces(IF w > TextLen(t) THEN w - TextLen(t) ELSE 0)

\* f'{t:>w}' : right-aligned, padded to width w
PadLeft(t, w) == Spaces(IF w > TextLen(t) THEN w - TextLen(t) ELSE 0) \o t

BoolText(b) == IF b THEN <<"True">> ELSE <<"False">>

\* GPUInfo.__str__
GPUInfoStr(g) ==
    PadRight(g.model, 26) \o <<" ", "|", " ", "Free", ":", " ">>
    \o PadRight(BoolText(g.num_procs = 0), 5)
    \o <<" ", "|", " ", "Num Procs", ":", " ">> \o PadLeft(<<ToString(g.num_procs)>>, 2)
    \o <<" ", "|", " ", "GPU Util", ":", " ">> \o PadLeft(g.gpu_util, 3) \o <<" ", "%">>
    \o <<" ", "|", " ", "Memory", ":", " ">> \o PadLeft(g.used_mem, 5)
    \o <<" ", "/", " ">> \o PadLeft(g.total_mem, 5) \o <<" ", "MiB">>

\* ---------------------------------------------------------- parse_gpu_info
\* self.proc_filter = re.compile(r'.*') matches every process name
ProcFilter(name) == TRUE

RECURSIVE CountProcs(_)
CountProcs(ps) ==
    IF ps = <<>> THEN 0
    ELSE (IF Head(ps) # NoField /\ ProcFilter(Head(ps)) THEN 1 ELSE 0) + CountProcs(Tail(ps))

\* a <gpu> node whose traversal raises AttributeError (find() returned None)
GpuIncomplete(gpu) ==
    \/ gpu.product_name = NoField
    \/ gpu.gpu_util = NoField
    \/ gpu.used = NoField
    \/ gpu.total = NoField

ParseGpu(gpu) ==
    [model |-> gpu.product_name,
     num_procs |-> IF gpu.procs = NoField THEN 0 ELSE CountProcs(gpu.procs),
     gpu_util |-> RemoveSuffix(gpu.gpu_util, <<" ", "%">>),
     used_mem |-> RemoveSuffix(gpu.used, <<" ", "MiB">>),
     total_mem |-> RemoveSuffix(gpu.total, <<" ", "MiB">>)]

\* a loop over the <gpu> nodes that leaves out a node it cannot read
RECURSIVE ParseGpusSkips(_, _)
ParseGpusSkips(gpus, gpu_infos) ==
    IF gpus = <<>>
    THEN JoinLines([k \in 1..Len(gpu_infos) |-> GPUInfoStr(gpu_infos[k])])
    ELSE IF GpuIncomplete(Head(gpus)) \/ Head(gpus).product_name = NoText
         THEN ParseGpusSkips(Tail(gpus), gpu_infos)
         ELSE ParseGpusSkips(Tail(gpus), Append(gpu_infos, ParseGpu(Head(gpus))))

\* the loop over root.findall('gpu') and the join of the GPUInfo strings.  An
\* AttributeError ends the loop with its own message; str() of a GPUInfo whose
\* model is None raises TypeError in the join, which 'except Exception' turns
\* into "Parse error: ...".
RECURSIVE ParseGpus(_, _)
ParseGpus(gpus, gpu_infos) ==
    IF gpus = <<>>
    THEN IF \E k \in 1..Len(gpu_infos) : gpu_infos[k].model = NoText
         THEN <<"Parse", " ", "error", ":", " ">> \o MsgFormatNone
         ELSE JoinLines([k \in 1..Len(gpu_infos) |-> GPUInfoStr(gpu_infos[k])])
    ELSE IF GpuIncomplete(Head(gpus))
         THEN <<"Error", " ", "parsing GPU info", ":", " ">> \o MsgNoneText
         ELSE ParseGpus(Tail(gpus), Append(gpu_infos, ParseGpu(Head(gpus))))

parse_gpu_info(xml_output) ==
    IF ~xml_output.wellformed
    THEN <<"XML parse error", ":", " ">> \o MsgXMLSyntax
    ELSE ParseGpus(xml_output.gpus, <<>>)

\* ----------------------------------------------------- check_single_target
\* conn.run(cmd, check): what awaiting the command yields.  With check set a
\* non-zero exit status raises ProcessError, a subclass of asyncssh.Error.
ConnRun(reply, check) ==
    CASE reply.kind = "timeout" -> [raised |-> "TimeoutError", msg |-> <<>>]
      [] reply.kind = "ssh_error" -> [raised |-> "asyncssh.Error", msg |-> MsgConnectionLost]
      [] reply.kind = "os_error" -> [raised |-> "Exception", msg |-> MsgOSError]
      [] OTHER ->
           IF check /\ reply.exit_status \notin {0, NoStatus}
           THEN [raised |-> "asyncssh.Error", msg |-> MsgProcessError]
           ELSE [raised |-> "none", exit_status |-> reply.exit_status,
                 stderr |-> reply.stderr, stdout |-> reply.doc]

\* the part of check_single_target after the command was awaited
CheckOutcome(reply) ==
    LET result == ConnRun(reply, TRUE) IN
    CASE result.raised = "TimeoutError" -> <<"Timeout">>
      [] result.raised = "asyncssh.Error" -> <<"SSH", " ", "Error", ":", " ">> \o result.msg
      [] result.raised = "Exception" -> <<"Unexpected", " ", "error", ":", " ">> \o result.msg
      [] OTHER ->
           IF result.exit_status # 0
           THEN <<"Command", " ", "failed", ":", " ">> \o result.stderr
           ELSE parse_gpu_info(result.stdout)

StatusNoConnection == <<"No", " ", "connection">>
StatusConnecting == <<"Connecting">>
StatusConnected == <<"Connected">>
StatusConnectionTimeout == <<"Connection", " ", "timeout">>
ConnectionError(msg) == <<"Connection", " ", "error", ":", " ">> \o msg

\* a coroutine's return value {host: status}
Dict(h, s) == [isdict |-> TRUE, host |-> h, status |-> s]

\* ------------------------------------------------------------------ state
VARIABLES
    pc,                 \* position of main()/run()
    keyExists,          \* os.path.exists(config['ssh']['key_path'])
    handlerInstalled,   \* signal.signal(SIGINT, self.signal_handler) was executed
    running,            \* self.running
    data,               \* self.gpu_table.data : host -> status text
    tableGen,           \* number of tables built by GPUTable._create_table
    table,              \* self.gpu_table.table : the renderable the GPUTable offers
    liveRenderable,     \* the renderable the Live display holds
    jump_conn,          \* self.jump_conn
    connections,        \* self.connections : host -> state of the stored session
    task,               \* state of each coroutine of the current fan-out
    remote,             \* what the remote end did for each coroutine of the fan-out
    connection_results, \* results gathered from open_connection
    results,            \* results gathered from check_single_target
    idx,                \* position of the for loop over results / connections
    rounds,             \* poll rounds started (iterations of the main loop entered)
    merged,             \* poll rounds whose results were merged into the table data
    interrupts,         \* SIGINT signals delivered
    goodbyeCalls,       \* calls of GPUTable.show_goodbye
    interruptedAt,      \* where run() was when the first SIGINT was delivered
    targets,            \* the target list main() generated
    max_widths,         \* self.gpu_table.max_widths : column -> width
    rendered,           \* poll rounds whose table was handed to the live display
    slept,              \* poll rounds whose refresh wait has elapsed
    loopErrors,         \* exceptions caught by the main loop's 'except Exception'
    elapsed,            \* clock ticks since the current poll round was entered
    deadline,           \* for each pending command, the tick at which wait_for gives up
    config              \* the configuration main() was called with

vars == <<pc, keyExists, handlerInstalled, running, data, tableGen, table, liveRenderable,
          jump_conn, connections, task, remote, connection_results, results, idx, rounds,
          merged, interrupts, goodbyeCalls, interruptedAt, targets, max_widths, rendered, slept,
          loopErrors, elapsed, deadline, config>>

NoResult == [isdict |-> FALSE, host |-> 0, status |-> <<>>]
NoRemote == [kind |-> "none"]
NoTable == [kind |-> "none", gen |-> 0]

\* The Live display holds a reference to the renderable it was given: which
\* object it is (a table is never changed once update_table has returned).
Shown(renderable) == [kind |-> renderable.kind, gen |-> renderable.gen]
Goodbye == [kind |-> "goodbye", gen |-> 0]

\* main() is entered: no target list, no AsyncGPUChecker and no GPUTable yet
Init ==
    /\ pc = "main"
    /\ keyExists \in BOOLEAN
    /\ handlerInstalled = FALSE
    /\ running = TRUE
    /\ targets = <<>>
    /\ data = <<>>
    /\ max_widths = <<>>
    /\ tableGen = 0
    /\ table = NoTable
    /\ liveRenderable = NoTable
    /\ jump_conn = "none"
    /\ connections = <<>>
    /\ task = [h \in Targets |-> "none"]
    /\ remote = [h \in Targets |-> NoRemote]
    /\ connection_results = [h \in Targets |-> NoResult]
    /\ results = [h \in Targets |-> NoResult]
    /\ idx = 0
    /\ rounds = 0
    /\ merged = 0
    /\ interrupts = 0
    /\ goodbyeCalls = 0
    /\ interruptedAt = "none"
    /\ rendered = 0
    /\ slept = 0
    /\ loopErrors = 0
    /\ elapsed = 0
    /\ deadline = [h \in Targets |-> -1]
    /\ config = DefaultConfig

\* ---------------------------------------------------------------- GPUTable
Columns == <<"Hostname", "Status/Model", "Free", "Procs", "GPU %", "Memory">>

\* self.max_widths as GPUTable.__init__ sets it
InitialWidths ==
    [c \in {Columns[k] : k \in 1..Len(Columns)} |->
        CASE c = "Hostname" -> 20
          [] c = "Status/Model" -> 30
          [] c = "GPU %" -> 6
          [] c = "Memory" -> 15
          [] OTHER -> 5]

\* the placeholder cell (an em dash in the source)
Placeholder == <<"-">>

\* an update_max_widths that stores the last length instead of the maximum
update_max_widths_last(widths, hostname, values) ==
    LET vals == <<hostname>> \o values IN
    [c \in DOMAIN widths |->
        LET k == CHOOSE i \in 1..Len(Columns) : Columns[i] = c IN
        IF k <= Len(vals) /\ vals[k] # Placeholder THEN TextLen(vals[k]) ELSE widths[c]]

\* GPUTable.update_max_widths: zip(columns, [hostname] + values), running maximum
update_max_widths(widths, hostname, values) ==
    LET vals == <<hostname>> \o values IN
    [c \in DOMAIN widths |->
        LET k == CHOOSE i \in 1..Len(Columns) : Columns[i] = c IN
        IF k <= Len(vals) /\ vals[k] # Placeholder
        THEN Max(widths[c], TextLen(vals[k]))
        ELSE widths[c]]

\* the statuses update_table shows as they are
IsStatusText(status) ==
    \/ status \in {StatusConnecting, StatusConnected, StatusNoConnection}
    \/ \E prefix \in {<<"Connection">>, <<"Error">>, <<"Timeout">>, <<"SSH", " ", "Error">>,
                      <<"Unexpected", " ", "error">>, <<"Parse", " ", "error">>,
                      <<"XML parse error">>} : StartsWith(status, prefix)

\* [p.strip() for p in gpu_entry.split("|")]
Parts(gpu_entry) ==
    LET ps == Split(gpu_entry, "|") IN [k \in 1..Len(ps) |-> Strip(ps[k])]

\* part.split(":")[1] raises IndexError
NoColon(part) == Len(Split(part, ":")) < 2

\* part.split(":")[1].strip()
Field(part) == Strip(Split(part, ":")[2])

\* first pass, the loop over one host's gpu entries: the value lists it hands
\* to update_max_widths, until the entries or a bare 'except' end it
RECURSIVE MeasuredEntries(_, _)
MeasuredEntries(gpu_entries, measured) ==
    IF gpu_entries = <<>> THEN measured
    ELSE LET parts == Parts(Head(gpu_entries)) IN
         IF Len(parts) # 5 THEN MeasuredEntries(Tail(gpu_entries), measured)
         ELSE IF \E k \in 2..5 : NoColon(parts[k]) THEN measured
         ELSE MeasuredEntries(Tail(gpu_entries),
                  Append(measured, <<parts[1], Field(parts[2]), Field(parts[3]),
                                     Field(parts[4]), Field(parts[5])>>))

\* first pass, one item of self.data: the value lists handed to update_max_widths
MeasuredValues(status) ==
    IF IsStatusText(status)
    THEN <<<<status, Placeholder, Placeholder, Placeholder, Placeholder>>>>
    ELSE MeasuredEntries(Split(status, "\n"), <<>>)

\* a _create_table that keeps the rows of the table it replaces
KeepRows(widths, gen) ==
    [kind |-> "table", gen |-> gen, min_width |-> widths,
     rows |-> IF table.kind = "table" THEN table.rows ELSE <<>>]

\* GPUTable._create_table: a new table, its columns at the tracked widths
create_table(widths, gen) ==
    [kind |-> "table", gen |-> gen, min_width |-> widths, rows |-> <<>>]

StatusRow(hostname, status) ==
    <<hostname, status, Placeholder, Placeholder, Placeholder, Placeholder>>

ParseError(msg) == <<"Parse", " ", "error", ":", " ">> \o msg

\* second pass, the loop over one host's gpu entries (i counts from 1)
RECURSIVE EntryRows(_, _, _, _)
EntryRows(hostname, gpu_entries, i, rows) ==
    IF i > Len(gpu_entries) THEN rows
    ELSE LET parts == Parts(gpu_entries[i]) IN
         IF Len(parts) # 5
         THEN Append(rows, StatusRow(hostname,
                  ParseError(<<"Invalid format", ":", " ",
                               "expected 5 parts, got " \o ToString(Len(parts))>>)))
         ELSE IF \E k \in 2..5 : NoColon(parts[k])
         THEN Append(rows, StatusRow(hostname, ParseError(<<"list index out of range">>)))
         ELSE EntryRows(hostname, gpu_entries, i + 1,
                  Append(rows, <<IF i = 1 THEN hostname ELSE <<>>, parts[1], Field(parts[2]),
                                 Field(parts[3]), Field(parts[4]), Field(parts[5])>>))

\* second pass, the rows one item of self.data adds
HostRows(hostname, status) ==
    IF IsStatusText(status) THEN <<StatusRow(hostname, status)>>
    ELSE EntryRows(hostname, Split(status, "\n"), 1, <<>>)

\* a second pass over self.data.items() as they are, in the configured order
RECURSIVE HostsAsConfigured(_)
HostsAsConfigured(hosts) ==
    IF hosts = {} THEN <<>>
    ELSE LET first == CHOOSE x \in hosts : \A y \in hosts \ {x} : x < y IN
         <<first>> \o HostsAsConfigured(hosts \ {first})

\* sorted(self.data.items()): the hosts in the order of their names
RECURSIVE SortedHosts(_)
SortedHosts(hosts) ==
    IF hosts = {} THEN <<>>
    ELSE LET first == CHOOSE x \in hosts : \A y \in hosts \ {x} : NameBefore(x, y) IN
         <<first>> \o SortedHosts(hosts \ {first})

\* every status text open_connection, check_single_target and run() produce
StatusTexts ==
    {StatusConnecting, StatusConnected, StatusNoConnection, StatusConnectionTimeout,
     ConnectionError(MsgChannelOpen), ConnectionError(MsgPermissionDenied)}
    \cup {CheckOutcome(reply) : reply \in AllReplies}

\* MeasuredValues and HostRows of every status text (and host), evaluated once
Measured == [status \in StatusTexts |-> MeasuredValues(status)]

Rows == [h \in Targets |-> [status \in StatusTexts |-> HostRows(HostName(h), status)]]

\* first pass, one item of self.data
RECURSIVE MeasureStatus(_, _, _)
MeasureStatus(widths, hostname, values) ==
    IF values = <<>> THEN widths
    ELSE MeasureStatus(update_max_widths(widths, hostname, Head(values)), hostname,
                       Tail(values))

\* first pass: 'for hostname, status in self.data.items()'.  The widths are
\* running maxima, so the order of the items does not show in the result.
RECURSIVE MeasureAll(_, _, _)
MeasureAll(widths, d, hosts) ==
    IF hosts = {} THEN widths
    ELSE LET h == CHOOSE x \in hosts : TRUE IN
         MeasureAll(MeasureStatus(widths, HostName(h), Measured[d[h]]), d, hosts \ {h})

\* second pass: 'for hostname, status in sorted(self.data.items())'
RECURSIVE AddRows(_, _, _)
AddRows(rows, d, order) ==
    IF order = <<>> THEN rows
    ELSE AddRows(rows \o Rows[Head(order)][d[Head(order)]], d, Tail(order))

\* a merge that replaces the mapping instead of updating it
DictReplace(d, new) == new

\* a merge that adds new hosts and keeps the status of a host it already has
DictKeepOld(d, new) ==
    [h \in (DOMAIN d) \cup (DOMAIN new) |-> IF h \in DOMAIN d THEN d[h] ELSE new[h]]

\* dict.update on a host -> status mapping kept as a function
DictUpdate(d, new) ==
    [h \in (DOMAIN d) \cup (DOMAIN new) |-> IF h \in DOMAIN new THEN new[h] ELSE d[h]]

\* what GPUTable.update_table(new_data) leaves in data, max_widths and raw_table
UpdateTable(new_data) ==
    LET d == DictUpdate(data, new_data)
        widths == MeasureAll(max_widths, d, DOMAIN d)
        raw_table == create_table(widths, tableGen + 1)
    IN [data |-> d,
        max_widths |-> widths,
        table |-> [raw_table EXCEPT !.rows = AddRows(raw_table.rows, d, SortedHosts(DOMAIN d))]]

\* GPUTable.update_table: merge, measure, rebuild the table, add the rows
update_table(new_data) ==
    LET updated == UpdateTable(new_data) IN
    /\ data' = updated.data
    /\ max_widths' = updated.max_widths
    /\ tableGen' = tableGen + 1
    /\ table' = updated.table

\* GPUTable.show_goodbye
show_goodbye ==
    /\ table' = Goodbye
    /\ goodbyeCalls' = goodbyeCalls + 1

\* a handler that, like the default SIGINT handling, makes the statement in
\* progress raise, so that run() goes to its finally clause at once
signal_handler_cancels ==
    /\ handlerInstalled
    /\ pc \notin {"stopped", "exited"}
    /\ interrupts < MaxInterrupts
    /\ interrupts' = interrupts + 1
    /\ show_goodbye
    /\ running' = FALSE
    /\ interruptedAt' = IF interruptedAt = "none" THEN pc ELSE interruptedAt
    /\ pc' = IF pc \in {"main", "run", "init_table", "live_enter"} THEN pc ELSE "live_exit"
    /\ UNCHANGED <<keyExists, handlerInstalled, data, tableGen, liveRenderable, jump_conn, connections,
                task, remote, connection_results, results, idx, rounds, merged, targets, max_widths,
                rendered, slept, loopErrors, elapsed, deadline, config>>

\* AsyncGPUChecker.signal_handler, run by the interpreter between two steps
signal_handler ==
    /\ handlerInstalled
    /\ pc \notin {"stopped", "exited"}
    /\ interrupts < MaxInterrupts
    /\ interrupts' = interrupts + 1
    /\ show_goodbye
    /\ running' = FALSE
    /\ interruptedAt' = IF interruptedAt = "none" THEN pc ELSE interruptedAt
    /\ UNCHANGED <<pc, keyExists, handlerInstalled, data, tableGen, liveRenderable, jump_conn,
                   connections, task, remote, connection_results, results, idx, rounds, merged,
                   targets, max_widths, rendered, slept, loopErrors, elapsed, deadline, config>>

\* a main() that prints the message about the key and goes on
MainNoKeyGoesOn ==
    /\ pc = "main"
    /\ ~keyExists
    /\ targets' = generate_targets(config)
    /\ max_widths' = InitialWidths
    /\ tableGen' = 1
    /\ table' = create_table(InitialWidths, 1)
    /\ pc' = "run"
    /\ UNCHANGED <<keyExists, handlerInstalled, running, data, liveRenderable, jump_conn,
                   connections, task, remote, connection_results, results, idx, rounds, merged,
                   interrupts, goodbyeCalls, interruptedAt, rendered, slept, loopErrors,
                   elapsed, deadline, config>>

\* ------------------------------------------------------------------ main()
\* the key file is missing: a message is printed and main() returns
MainNoKey ==
    /\ pc = "main"
    /\ ~keyExists
    /\ pc' = "exited"
    /\ UNCHANGED <<keyExists, handlerInstalled, running, data, tableGen, table, liveRenderable,
                   jump_conn, connections, task, remote, connection_results, results, idx,
                   rounds, merged, interrupts, goodbyeCalls, interruptedAt, targets, max_widths,
                   rendered, slept, loopErrors, elapsed, deadline, config>>

\* generate_targets(config), then AsyncGPUChecker(targets), whose GPUTable()
\* sets the initial widths and creates the first table
Main ==
    /\ pc = "main"
    /\ keyExists
    /\ targets' = generate_targets(config)
    /\ max_widths' = InitialWidths
    /\ tableGen' = 1
    /\ table' = create_table(InitialWidths, 1)
    /\ pc' = "run"
    /\ UNCHANGED <<keyExists, handlerInstalled, running, data, liveRenderable, jump_conn,
                   connections, task, remote, connection_results, results, idx, rounds, merged,
                   interrupts, goodbyeCalls, interruptedAt, rendered, slept, loopErrors,
                   elapsed, deadline, config>>

\* ------------------------------------------------------ AsyncGPUChecker.run
RunStart ==
    /\ pc = "run"
    /\ handlerInstalled' = TRUE
    /\ pc' = "init_table"
    /\ UNCHANGED <<keyExists, running, data, tableGen, table, liveRenderable, jump_conn,
                   connections, task, remote, connection_results, results, idx, rounds, merged,
                   interrupts, goodbyeCalls, interruptedAt, targets, max_widths, rendered,
                   slept, loopErrors, elapsed, deadline, config>>

InitTable ==
    /\ pc = "init_table"
    /\ update_table([h \in Targets |-> StatusConnecting])
    /\ pc' = "live_enter"
    /\ UNCHANGED <<keyExists, handlerInstalled, running, liveRenderable, jump_conn, connections,
                   task, remote, connection_results, results, idx, rounds, merged, interrupts,
                   goodbyeCalls, interruptedAt, targets, rendered, slept, loopErrors, elapsed,
                   deadline, config>>

\* with Live(self.gpu_table.table, ...) as live, then the jump connect is awaited
LiveEnter ==
    /\ pc = "live_enter"
    /\ liveRenderable' = Shown(table)
    /\ pc' = "jump_connect"
    /\ UNCHANGED <<keyExists, handlerInstalled, running, data, tableGen, table, jump_conn,
                   connections, task, remote, connection_results, results, idx, rounds, merged,
                   interrupts, goodbyeCalls, interruptedAt, targets, max_widths, rendered,
                   slept, loopErrors, elapsed, deadline, config>>

JumpConnected ==
    /\ pc = "jump_connect"
    /\ jump_conn' = "open"
    /\ task' = [h \in Targets |-> "created"]
    /\ pc' = "open_gather"
    /\ UNCHANGED <<keyExists, handlerInstalled, running, data, tableGen, table, liveRenderable,
                   connections, remote, connection_results, results, idx, rounds, merged,
                   interrupts, goodbyeCalls, interruptedAt, targets, max_widths, rendered,
                   slept, loopErrors, elapsed, deadline, config>>

\* a run() that goes on to the targets when asyncssh.connect raised
JumpFailedContinues ==
    /\ pc = "jump_connect"
    /\ task' = [h \in Targets |-> "created"]
    /\ pc' = "open_gather"
    /\ UNCHANGED <<keyExists, handlerInstalled, running, data, tableGen, table, liveRenderable,
                   jump_conn, connections, remote, connection_results, results, idx, rounds,
                   merged, interrupts, goodbyeCalls, interruptedAt, targets, max_widths,
                   rendered, slept, loopErrors, elapsed, deadline, config>>

\* asyncssh.connect raises: the exception leaves the Live block
JumpFailed ==
    /\ pc = "jump_connect"
    /\ pc' = "live_exit"
    /\ UNCHANGED <<keyExists, handlerInstalled, running, data, tableGen, table, liveRenderable,
                   jump_conn, connections, task, remote, connection_results, results, idx,
                   rounds, merged, interrupts, goodbyeCalls, interruptedAt, targets, max_widths,
                   rendered, slept, loopErrors, elapsed, deadline, config>>

\* self.connections.get(host): the stored session, if any
HasConnection(h) == h \in DOMAIN connections

\* a loop that awaits the hosts one after the other instead of a gather
MayStartSerial(h) == task[h] = "created" /\ \A g \in Targets : g < h => task[g] = "done"

\* asyncio.gather: the coroutines are started in list order, each running up to
\* its first await, before any of the awaited operations is resumed
MayStart(h) == task[h] = "created" /\ \A g \in Targets : g < h => task[g] # "created"

\* a gather that resumes awaited operations once its first coroutine was started
FirstStarted == \E h \in Targets : task[h] # "created"

\* no coroutine of the fan-out is waiting for its first step any more
AllStarted == \A h \in Targets : ~MayStart(h)

AllDone == \A h \in Targets : task[h] = "done"

\* --------------------------------------------------------- open_connection
OpenOutcomes == {"fwd_timeout", "fwd_error", "conn_timeout", "auth_error", "connected"}

\* an exception object in a gather result list (return_exceptions=True)
Raised == [isdict |-> FALSE, host |-> 0, status |-> <<"exception">>]

\* open_connection without its 'except Exception' clause
OpenResultRaises(h, out) ==
    CASE out = "connected" -> Dict(h, StatusConnected)
      [] out \in {"fwd_timeout", "conn_timeout"} -> Dict(h, StatusConnectionTimeout)
      [] OTHER -> Raised

\* the value open_connection returns for what the forward / the connect did
OpenResult(h, out) ==
    CASE out = "connected" -> Dict(h, StatusConnected)
      [] out \in {"fwd_timeout", "conn_timeout"} -> Dict(h, StatusConnectionTimeout)
      [] out = "fwd_error" -> Dict(h, ConnectionError(MsgChannelOpen))
      [] OTHER -> Dict(h, ConnectionError(MsgPermissionDenied))

\* an open_connection that stores the session object before the connect has
\* returned, so that a connect that times out leaves an entry behind
StoreConnectionEarly(conns, h, out) ==
    IF out \notin {"connected", "conn_timeout"} THEN conns
    ELSE [g \in (DOMAIN conns) \cup {h} |-> IF g = h THEN "open" ELSE conns[g]]

\* self.connections[target.host] = conn, executed only when the connect returned
StoreConnection(conns, h, out) ==
    IF out # "connected" THEN conns
    ELSE [g \in (DOMAIN conns) \cup {h} |-> IF g = h THEN "open" ELSE conns[g]]

\* open_connection up to 'await wait_for(forward_local_port ...)'
OpenStart(h) ==
    /\ pc = "open_gather"
    /\ MayStart(h)
    /\ task' = [task EXCEPT ![h] = "forwarding"]
    /\ UNCHANGED <<pc, keyExists, handlerInstalled, running, data, tableGen, table,
                   liveRenderable, jump_conn, connections, remote, connection_results, results,
                   idx, rounds, merged, interrupts, goodbyeCalls, interruptedAt, targets,
                   max_widths, rendered, slept, loopErrors, elapsed, deadline, config>>

\* the listener is up; 'await wait_for(asyncssh.connect ...)'
OpenForwarded(h) ==
    /\ pc = "open_gather"
    /\ AllStarted
    /\ task[h] = "forwarding"
    /\ task' = [task EXCEPT ![h] = "connecting"]
    /\ UNCHANGED <<pc, keyExists, handlerInstalled, running, data, tableGen, table,
                   liveRenderable, jump_conn, connections, remote, connection_results, results,
                   idx, rounds, merged, interrupts, goodbyeCalls, interruptedAt, targets,
                   max_widths, rendered, slept, loopErrors, elapsed, deadline, config>>

\* the coroutine finishes: the forward failed, or the connect returned / failed
OpenFinish(h, out) ==
    /\ pc = "open_gather"
    /\ AllStarted
    /\ \/ task[h] = "forwarding" /\ out \in {"fwd_timeout", "fwd_error"}
       \/ task[h] = "connecting" /\ out \in OpenOutcomes \ {"fwd_timeout", "fwd_error"}
    /\ task' = [task EXCEPT ![h] = "done"]
    /\ remote' = [remote EXCEPT ![h] = [kind |-> out]]
    /\ connections' = StoreConnection(connections, h, out)
    /\ connection_results' = [connection_results EXCEPT ![h] = OpenResult(h, out)]
    /\ UNCHANGED <<pc, keyExists, handlerInstalled, running, data, tableGen, table,
                   liveRenderable, jump_conn, results, idx, rounds, merged, interrupts,
                   goodbyeCalls, interruptedAt, targets, max_widths, rendered, slept,
                   loopErrors, elapsed, deadline, config>>

\* a gather that returns once every coroutine was started
OpenGatheredEarly ==
    /\ pc = "open_gather"
    /\ AllStarted
    /\ idx' = 1
    /\ pc' = "conn_results"
    /\ UNCHANGED <<keyExists, handlerInstalled, running, data, tableGen, table, liveRenderable,
                   jump_conn, connections, task, remote, connection_results, results, rounds,
                   merged, interrupts, goodbyeCalls, interruptedAt, targets, max_widths,
                   rendered, slept, loopErrors, elapsed, deadline, config>>

\* 'await asyncio.gather(*connection_tasks, return_exceptions=True)' returns
OpenGathered ==
    /\ pc = "open_gather"
    /\ AllDone
    /\ idx' = 1
    /\ pc' = "conn_results"
    /\ UNCHANGED <<keyExists, handlerInstalled, running, data, tableGen, table, liveRenderable,
                   jump_conn, connections, task, remote, connection_results, results, rounds,
                   merged, interrupts, goodbyeCalls, interruptedAt, targets, max_widths,
                   rendered, slept, loopErrors, elapsed, deadline, config>>

\* one iteration of 'for result in connection_results'
ProcessConnResult ==
    /\ pc = "conn_results"
    /\ idx <= NumHosts
    /\ IF connection_results[idx].isdict
       THEN update_table([h \in {connection_results[idx].host} |-> connection_results[idx].status])
       ELSE UNCHANGED <<data, max_widths, tableGen, table>>
    /\ idx' = idx + 1
    /\ UNCHANGED <<pc, keyExists, handlerInstalled, running, liveRenderable, jump_conn,
                   connections, task, remote, connection_results, results, rounds, merged,
                   interrupts, goodbyeCalls, interruptedAt, targets, rendered, slept,
                   loopErrors, elapsed, deadline, config>>

\* live.update(self.gpu_table.table) after the loop
ConnLiveUpdate ==
    /\ pc = "conn_results"
    /\ idx > NumHosts
    /\ liveRenderable' = Shown(table)
    /\ pc' = "loop_test"
    /\ UNCHANGED <<keyExists, handlerInstalled, running, data, tableGen, table, jump_conn,
                   connections, task, remote, connection_results, results, idx, rounds, merged,
                   interrupts, goodbyeCalls, interruptedAt, targets, max_widths, rendered,
                   slept, loopErrors, elapsed, deadline, config>>

\* ------------------------------------------------------------- main loop
\* a main loop that does not test self.running
LoopEnterAlways ==
    /\ pc = "loop_test"
    /\ rounds < MaxRounds
    /\ rounds' = rounds + 1
    /\ task' = [h \in Targets |-> "created"]
    /\ remote' = [h \in Targets |-> NoRemote]
    /\ results' = [h \in Targets |-> NoResult]
    /\ elapsed' = 0
    /\ deadline' = [h \in Targets |-> -1]
    /\ pc' = "poll_gather"
    /\ UNCHANGED <<keyExists, handlerInstalled, running, data, tableGen, table, liveRenderable,
                   jump_conn, connections, connection_results, idx, merged, interrupts,
                   goodbyeCalls, interruptedAt, targets, max_widths, rendered, slept, loopErrors,
                   config>>

\* 'while self.running:' ; entering the body creates the round's coroutines
LoopEnter ==
    /\ pc = "loop_test"
    /\ running
    /\ rounds < MaxRounds
    /\ rounds' = rounds + 1
    /\ task' = [h \in Targets |-> "created"]
    /\ remote' = [h \in Targets |-> NoRemote]
    /\ results' = [h \in Targets |-> NoResult]
    /\ elapsed' = 0
    /\ deadline' = [h \in Targets |-> -1]
    /\ pc' = "poll_gather"
    /\ UNCHANGED <<keyExists, handlerInstalled, running, data, tableGen, table, liveRenderable,
                   jump_conn, connections, connection_results, idx, merged, interrupts,
                   goodbyeCalls, interruptedAt, targets, max_widths, rendered, slept, loopErrors,
                   config>>

LoopExit ==
    /\ pc = "loop_test"
    /\ ~running
    /\ pc' = "live_exit"
    /\ UNCHANGED <<keyExists, handlerInstalled, running, data, tableGen, table, liveRenderable,
                   jump_conn, connections, task, remote, connection_results, results, idx,
                   rounds, merged, interrupts, goodbyeCalls, interruptedAt, targets, max_widths,
                   rendered, slept, loopErrors, elapsed, deadline, config>>

\* CheckOutcome of every reply, evaluated once
Outcome == [reply \in AllReplies |-> CheckOutcome(reply)]

\* check_single_target: the value returned once the command was awaited
check_single_target(h, reply) == Dict(h, Outcome[reply])

\* a check_single_target without the 'if not conn' test
PollStartAlways(h) ==
    /\ pc = "poll_gather"
    /\ MayStart(h)
    /\ task' = [task EXCEPT ![h] = "running"]
    /\ deadline' = [deadline EXCEPT ![h] = elapsed + TimeoutTicks]
    /\ UNCHANGED <<pc, keyExists, handlerInstalled, running, data, tableGen, table,
                   liveRenderable, jump_conn, connections, remote, connection_results, results,
                   idx, rounds, merged, interrupts, goodbyeCalls, interruptedAt, targets,
                   max_widths, rendered, slept, loopErrors, elapsed, config>>

\* check_single_target up to its first await (or its early return)
PollStart(h) ==
    /\ pc = "poll_gather"
    /\ MayStart(h)
    /\ IF HasConnection(h)
       THEN /\ task' = [task EXCEPT ![h] = "running"]
            /\ deadline' = [deadline EXCEPT ![h] = elapsed + TimeoutTicks]
            /\ UNCHANGED results
       ELSE /\ task' = [task EXCEPT ![h] = "done"]
            /\ results' = [results EXCEPT ![h] = Dict(h, StatusNoConnection)]
            /\ UNCHANGED deadline
    /\ UNCHANGED <<pc, keyExists, handlerInstalled, running, data, tableGen, table,
                   liveRenderable, jump_conn, connections, remote, connection_results, idx,
                   rounds, merged, interrupts, goodbyeCalls, interruptedAt, targets, max_widths,
                   rendered, slept, loopErrors, elapsed, config>>

\* a check_single_target that drops the stored session of a host that timed out
PollFinishDrops(h, reply) ==
    /\ pc = "poll_gather"
    /\ AllStarted
    /\ task[h] = "running"
    /\ task' = [task EXCEPT ![h] = "done"]
    /\ remote' = [remote EXCEPT ![h] = reply]
    /\ results' = [results EXCEPT ![h] = check_single_target(h, reply)]
    /\ connections' = IF reply.kind = "timeout"
                      THEN [g \in (DOMAIN connections) \ {h} |-> connections[g]]
                      ELSE connections
    /\ UNCHANGED <<pc, keyExists, handlerInstalled, running, data, tableGen, table,
                   liveRenderable, jump_conn, connection_results, idx, rounds, merged,
                   interrupts, goodbyeCalls, interruptedAt, targets, max_widths, rendered,
                   slept, loopErrors, elapsed, deadline, config>>

\* the awaited command resolves, fails or hits wait_for's timeout
PollFinish(h, reply) ==
    /\ pc = "poll_gather"
    /\ AllStarted
    /\ task[h] = "running"
    /\ task' = [task EXCEPT ![h] = "done"]
    /\ remote' = [remote EXCEPT ![h] = reply]
    /\ results' = [results EXCEPT ![h] = check_single_target(h, reply)]
    /\ UNCHANGED <<pc, keyExists, handlerInstalled, running, data, tableGen, table,
                   liveRenderable, jump_conn, connections, connection_results, idx, rounds,
                   merged, interrupts, goodbyeCalls, interruptedAt, targets, max_widths,
                   rendered, slept, loopErrors, elapsed, deadline, config>>

\* a collecting loop that leaves out the last result
RECURSIVE CollectResultsShort(_, _, _)
CollectResultsShort(rs, i, acc) ==
    IF i >= NumHosts THEN acc
    ELSE CollectResultsShort(rs, i + 1,
             IF rs[i].isdict
             THEN DictUpdate(acc, [h \in {rs[i].host} |-> rs[i].status])
             ELSE acc)

\* a collecting loop that a host's parse error ends
RECURSIVE CollectResultsAbort(_, _, _)
CollectResultsAbort(rs, i, acc) ==
    IF i > NumHosts THEN acc
    ELSE IF rs[i].isdict /\ StartsWith(rs[i].status, <<"XML parse error">>) THEN acc
    ELSE CollectResultsAbort(rs, i + 1,
             IF rs[i].isdict
             THEN DictUpdate(acc, [h \in {rs[i].host} |-> rs[i].status])
             ELSE acc)

\* 'data = {}; for result in results: if isinstance(result, dict): data.update(result)'
RECURSIVE CollectResults(_, _, _)
CollectResults(rs, i, acc) ==
    IF i > NumHosts THEN acc
    ELSE CollectResults(rs, i + 1,
             IF rs[i].isdict
             THEN DictUpdate(acc, [h \in {rs[i].host} |-> rs[i].status])
             ELSE acc)

\* a gather that returns once every coroutine was started
PollMergeEarly ==
    /\ pc = "poll_gather"
    /\ AllStarted
    /\ update_table(CollectResults(results, 1, <<>>))
    /\ merged' = merged + 1
    /\ pc' = "poll_live_update"
    /\ UNCHANGED <<keyExists, handlerInstalled, running, liveRenderable, jump_conn, connections,
                   task, remote, connection_results, results, idx, rounds, interrupts,
                   goodbyeCalls, interruptedAt, targets, rendered, slept, loopErrors, elapsed,
                   deadline, config>>

\* gather returns; the results are collected and self.gpu_table.update_table(data)
PollMerge ==
    /\ pc = "poll_gather"
    /\ AllDone
    /\ update_table(CollectResults(results, 1, <<>>))
    /\ merged' = merged + 1
    /\ pc' = "poll_live_update"
    /\ UNCHANGED <<keyExists, handlerInstalled, running, liveRenderable, jump_conn, connections,
                   task, remote, connection_results, results, idx, rounds, interrupts,
                   goodbyeCalls, interruptedAt, targets, rendered, slept, loopErrors, elapsed, deadline,
                   config>>

\* live.update(self.gpu_table.table), then 'await asyncio.sleep(REFRESH_RATE)'
PollLiveUpdate ==
    /\ pc = "poll_live_update"
    /\ liveRenderable' = Shown(table)
    /\ rendered' = rendered + 1
    /\ pc' = "sleep"
    /\ UNCHANGED <<keyExists, handlerInstalled, running, data, tableGen, table, jump_conn,
                   connections, task, remote, connection_results, results, idx, rounds, merged,
                   interrupts, goodbyeCalls, interruptedAt, targets, max_widths, slept,
                   loopErrors, elapsed, deadline, config>>

SleepDone ==
    /\ pc = "sleep"
    /\ slept' = slept + 1
    /\ pc' = "loop_test"
    /\ UNCHANGED <<keyExists, handlerInstalled, running, data, tableGen, table, liveRenderable,
                   jump_conn, connections, task, remote, connection_results, results, idx,
                   rounds, merged, interrupts, goodbyeCalls, interruptedAt, targets, max_widths,
                   rendered, loopErrors, elapsed, deadline, config>>

\* ---------------------------------------------------------------- shutdown
\* the Live block is left (normally or by the jump connect's exception)
LiveExit ==
    /\ pc = "live_exit"
    /\ pc' = "close_conns"
    /\ UNCHANGED <<keyExists, handlerInstalled, running, data, tableGen, table, liveRenderable,
                   jump_conn, connections, task, remote, connection_results, results, idx,
                   rounds, merged, interrupts, goodbyeCalls, interruptedAt, targets, max_widths,
                   rendered, slept, loopErrors, elapsed, deadline, config>>

\* the sessions the loop of the finally clause has not come to yet
ToClose == {h \in DOMAIN connections : connections[h] = "open"}

\* finally: one iteration of 'for conn in self.connections.values(): conn.close()'.
\* The dict yields the sessions in the order in which the connects returned;
\* every order is possible, so the iteration takes any session still to close.
CloseConn(h) ==
    /\ pc = "close_conns"
    /\ h \in ToClose
    /\ connections' = [connections EXCEPT ![h] = "closed"]
    /\ UNCHANGED <<pc, keyExists, handlerInstalled, running, data, tableGen, table,
                   liveRenderable, jump_conn, task, remote, connection_results, results, idx,
                   rounds, merged, interrupts, goodbyeCalls, interruptedAt, targets, max_widths,
                   rendered, slept, loopErrors, elapsed, deadline, config>>

\* 'if self.jump_conn: self.jump_conn.close()' ; run() returns
CloseJump ==
    /\ pc = "close_conns"
    /\ ToClose = {}
    /\ jump_conn' = IF jump_conn = "open" THEN "closed" ELSE jump_conn
    /\ pc' = "stopped"
    /\ UNCHANGED <<keyExists, handlerInstalled, running, data, tableGen, table, liveRenderable,
                   connections, task, remote, connection_results, results, idx, rounds, merged,
                   interrupts, goodbyeCalls, interruptedAt, targets, max_widths, rendered,
                   slept, loopErrors, elapsed, deadline, config>>

Next ==
    \/ MainNoKey
    \/ Main
    \/ RunStart
    \/ InitTable
    \/ LiveEnter
    \/ JumpConnected
    \/ JumpFailed
    \/ \E h \in Targets : OpenStart(h)
    \/ \E h \in Targets : OpenForwarded(h)
    \/ \E h \in Targets, out \in OpenOutcomes : OpenFinish(h, out)
    \/ OpenGathered
    \/ ProcessConnResult
    \/ ConnLiveUpdate
    \/ LoopEnter
    \/ LoopExit
    \/ \E h \in Targets : PollStart(h)
    \/ \E h \in Targets, reply \in Replies : PollFinish(h, reply)
    \/ PollMerge
    \/ PollLiveUpdate
    \/ SleepDone
    \/ LiveExit
    \/ \E h \in Targets : CloseConn(h)
    \/ CloseJump
    \/ signal_handler

Spec == Init /\ [][Next]_vars

\* Every step of run() other than the jump connect, which the code awaits
\* without a timeout: local code, wait_for-bounded operations, asyncio.sleep.
Progress ==
    \/ MainNoKey
    \/ Main
    \/ RunStart
    \/ InitTable
    \/ LiveEnter
    \/ \E h \in Targets : OpenStart(h)
    \/ \E h \in Targets : OpenForwarded(h)
    \/ \E h \in Targets, out \in OpenOutcomes : OpenFinish(h, out)
    \/ OpenGathered
    \/ ProcessConnResult
    \/ ConnLiveUpdate
    \/ LoopEnter
    \/ LoopExit
    \/ \E h \in Targets : PollStart(h)
    \/ \E h \in Targets, reply \in Replies : PollFinish(h, reply)
    \/ PollMerge
    \/ PollLiveUpdate
    \/ SleepDone
    \/ LiveExit
    \/ \E h \in Targets : CloseConn(h)
    \/ CloseJump

FairSpec == Spec /\ WF_vars(Progress)

\* ------------------------------------------------- faults the code guards
\* The main loop and the finally clause wrap their calls in handlers.  The
\* calls as modelled above do not raise; FaultSpec adds runs in which they do.
Faults ==
    loopErrors
    + Cardinality({h \in DOMAIN connections : connections[h] = "close_failed"})
    + (IF jump_conn = "close_failed" THEN 1 ELSE 0)

\* a main loop without its 'except Exception' clause: the exception leaves it
RoundErrorEnds ==
    /\ \/ pc = "poll_gather" /\ AllDone
       \/ pc = "poll_live_update"
    /\ Faults < MaxFaults
    /\ loopErrors' = loopErrors + 1
    /\ pc' = "live_exit"
    /\ UNCHANGED <<keyExists, handlerInstalled, running, data, tableGen, table, liveRenderable,
                   jump_conn, connections, task, remote, connection_results, results, idx,
                   rounds, merged, interrupts, goodbyeCalls, interruptedAt, targets, max_widths,
                   rendered, slept, elapsed, deadline, config>>

\* an exception raised in the loop body once the gather returned, before the
\* results are merged or when the table is handed to the display; it is caught
\* by 'except Exception' and logged
RoundError ==
    /\ \/ pc = "poll_gather" /\ AllDone
       \/ pc = "poll_live_update"
    /\ Faults < MaxFaults
    /\ loopErrors' = loopErrors + 1
    /\ pc' = "backoff"
    /\ UNCHANGED <<keyExists, handlerInstalled, running, data, tableGen, table, liveRenderable,
                   jump_conn, connections, task, remote, connection_results, results, idx,
                   rounds, merged, interrupts, goodbyeCalls, interruptedAt, targets, max_widths,
                   rendered, slept, elapsed, deadline, config>>

\* 'await asyncio.sleep(1)' of the handler returns
BackoffDone ==
    /\ pc = "backoff"
    /\ pc' = "loop_test"
    /\ UNCHANGED <<keyExists, handlerInstalled, running, data, tableGen, table, liveRenderable,
                   jump_conn, connections, task, remote, connection_results, results, idx,
                   rounds, merged, interrupts, goodbyeCalls, interruptedAt, targets, max_widths,
                   rendered, slept, loopErrors, elapsed, deadline, config>>

\* a finally clause without the 'try' around conn.close()
CloseConnPropagates(h) ==
    /\ pc = "close_conns"
    /\ h \in ToClose
    /\ Faults < MaxFaults
    /\ connections' = [connections EXCEPT ![h] = "close_failed"]
    /\ pc' = "stopped"
    /\ UNCHANGED <<keyExists, handlerInstalled, running, data, tableGen, table, liveRenderable,
                   jump_conn, task, remote, connection_results, results, idx, rounds, merged,
                   interrupts, goodbyeCalls, interruptedAt, targets, max_widths, rendered,
                   slept, loopErrors, elapsed, deadline, config>>

\* conn.close() raises; the bare 'except' swallows it and the loop goes on
CloseConnRaises(h) ==
    /\ pc = "close_conns"
    /\ h \in ToClose
    /\ Faults < MaxFaults
    /\ connections' = [connections EXCEPT ![h] = "close_failed"]
    /\ UNCHANGED <<pc, keyExists, handlerInstalled, running, data, tableGen, table,
                   liveRenderable, jump_conn, task, remote, connection_results, results, idx,
                   rounds, merged, interrupts, goodbyeCalls, interruptedAt, targets, max_widths,
                   rendered, slept, loopErrors, elapsed, deadline, config>>

\* self.jump_conn.close() raises; the bare 'except' swallows it
CloseJumpRaises ==
    /\ pc = "close_conns"
    /\ ToClose = {}
    /\ jump_conn = "open"
    /\ Faults < MaxFaults
    /\ jump_conn' = "close_failed"
    /\ pc' = "stopped"
    /\ UNCHANGED <<keyExists, handlerInstalled, running, data, tableGen, table, liveRenderable,
                   connections, task, remote, connection_results, results, idx, rounds, merged,
                   interrupts, goodbyeCalls, interruptedAt, targets, max_widths, rendered,
                   slept, loopErrors, elapsed, deadline, config>>

\* the answers the remote end gives in the runs with faults
FaultReplies == {reply \in Replies : reply.kind = "timeout" \/ reply.doc = DocOne}

FaultNext ==
    \/ MainNoKey
    \/ Main
    \/ RunStart
    \/ InitTable
    \/ LiveEnter
    \/ JumpConnected
    \/ JumpFailed
    \/ \E h \in Targets : OpenStart(h)
    \/ \E h \in Targets : OpenForwarded(h)
    \/ \E h \in Targets, out \in OpenOutcomes : OpenFinish(h, out)
    \/ OpenGathered
    \/ ProcessConnResult
    \/ ConnLiveUpdate
    \/ LoopEnter
    \/ LoopExit
    \/ \E h \in Targets : PollStart(h)
    \/ \E h \in Targets, reply \in FaultReplies : PollFinish(h, reply)
    \/ PollMerge
    \/ PollLiveUpdate
    \/ SleepDone
    \/ RoundError
    \/ BackoffDone
    \/ LiveExit
    \/ \E h \in Targets : CloseConn(h)
    \/ \E h \in Targets : CloseConnRaises(h)
    \/ CloseJump
    \/ CloseJumpRaises
    \/ signal_handler

FaultSpec == Init /\ [][FaultNext]_vars

\* ------------------------------------------------------------ clock ticks
\* A tick passes while run() waits in the gather of a poll round.  wait_for
\* ends a pending command at its deadline, so the clock does not pass one.
Tick ==
    /\ pc = "poll_gather"
    /\ AllStarted
    /\ \E h \in Targets : task[h] = "running"
    /\ \A h \in Targets : task[h] = "running" => elapsed < deadline[h]
    /\ elapsed' = elapsed + 1
    /\ UNCHANGED <<pc, keyExists, handlerInstalled, running, data, tableGen, table,
                   liveRenderable, jump_conn, connections, task, remote, connection_results,
                   results, idx, rounds, merged, interrupts, goodbyeCalls, interruptedAt,
                   targets, max_widths, rendered, slept, loopErrors, deadline, config>>

\* PollFinish on the clock: TimeoutError is raised at the deadline, an answer
\* of the remote end arrives before it
TimedPollFinish(h, reply) ==
    /\ PollFinish(h, reply)
    /\ reply.kind = "timeout" <=> elapsed = deadline[h]

\* a run that finds the key, connects the jump host and is not interrupted
TimedNext ==
    \/ Main
    \/ RunStart
    \/ InitTable
    \/ LiveEnter
    \/ JumpConnected
    \/ \E h \in Targets : OpenStart(h)
    \/ \E h \in Targets : OpenForwarded(h)
    \/ \E h \in Targets, out \in OpenOutcomes : OpenFinish(h, out)
    \/ OpenGathered
    \/ ProcessConnResult
    \/ ConnLiveUpdate
    \/ LoopEnter
    \/ \E h \in Targets : PollStart(h)
    \/ \E h \in Targets, reply \in Replies : TimedPollFinish(h, reply)
    \/ Tick
    \/ PollMerge
    \/ PollLiveUpdate
    \/ SleepDone

TimedInit == Init /\ keyExists = TRUE

TimedSpec == TimedInit /\ [][TimedNext]_vars

\* --------------------------------------------------- GPUTable on its own
\* the state main() leaves when it has constructed the AsyncGPUChecker
RenderInit ==
    /\ pc = "run"
    /\ keyExists = TRUE
    /\ handlerInstalled = FALSE
    /\ running = TRUE
    /\ targets = generate_targets(DefaultConfig)
    /\ data = <<>>
    /\ max_widths = InitialWidths
    /\ tableGen = 1
    /\ table = [kind |-> "table", gen |-> 1, min_width |-> InitialWidths, rows |-> <<>>]
    /\ liveRenderable = NoTable
    /\ jump_conn = "none"
    /\ connections = <<>>
    /\ task = [h \in Targets |-> "none"]
    /\ remote = [h \in Targets |-> NoRemote]
    /\ connection_results = [h \in Targets |-> NoResult]
    /\ results = [h \in Targets |-> NoResult]
    /\ idx = 0
    /\ rounds = 0
    /\ merged = 0
    /\ interrupts = 0
    /\ goodbyeCalls = 0
    /\ interruptedAt = "none"
    /\ rendered = 0
    /\ slept = 0
    /\ loopErrors = 0
    /\ elapsed = 0
    /\ deadline = [h \in Targets |-> -1]
    /\ config = DefaultConfig

\* status texts of every kind update_table tells apart: shown as they are
\* (short and long), not recognised, empty, one and two device entries
RenderStatuses ==
    {StatusConnecting, ConnectionError(MsgChannelOpen)}
    \cup {Outcome[reply] : reply \in {r \in AllReplies :
              \/ r.kind = "timeout"
              \/ r.kind = "completed" /\ r.doc # DocPartial}}

\* the dicts update_table is called with: the result of one host, or one
\* status for every host (as the placeholder pass does)
RenderInputs ==
    {[h \in {g} |-> status] : g \in Targets, status \in RenderStatuses}
    \cup {[h \in Targets |-> StatusConnecting]}

RenderUpdate(new_data) ==
    /\ pc = "run"
    /\ tableGen <= MaxRenders
    /\ update_table(new_data)
    /\ UNCHANGED <<pc, keyExists, handlerInstalled, running, liveRenderable, jump_conn,
                   connections, task, remote, connection_results, results, idx, rounds, merged,
                   interrupts, goodbyeCalls, interruptedAt, targets, rendered, slept,
                   loopErrors, elapsed, deadline, config>>

RenderNext == \E new_data \in RenderInputs : RenderUpdate(new_data)

RenderSpec == RenderInit /\ [][RenderNext]_vars

\* --------------------------------------------------- the parser on its own
GpuNodes == {GpuTesla, GpuLaptop, GpuNoName, GpuEmptyName, GpuNoUtil}

\* the documents stdout can hold: malformed, or up to MaxGpus <gpu> nodes
ParseDocs ==
    {DocMalformed}
    \cup {[wellformed |-> TRUE, gpus |-> gpus] :
             gpus \in UNION {[1..n -> GpuNodes] : n \in 0..MaxGpus}}

\* the command of host 1 has completed with exit status 0 and a document
ParseInit ==
    /\ pc = "parse"
    /\ keyExists = TRUE
    /\ handlerInstalled = FALSE
    /\ running = TRUE
    /\ targets = generate_targets(DefaultConfig)
    /\ data = <<>>
    /\ max_widths = InitialWidths
    /\ tableGen = 1
    /\ table = [kind |-> "table", gen |-> 1, min_width |-> InitialWidths, rows |-> <<>>]
    /\ liveRenderable = NoTable
    /\ jump_conn = "none"
    /\ connections = <<>>
    /\ task = [h \in Targets |-> "none"]
    /\ \E doc \in ParseDocs :
           remote = [h \in Targets |->
                        IF h = 1
                        THEN [kind |-> "completed", exit_status |-> 0, stderr |-> <<>>,
                              doc |-> doc]
                        ELSE NoRemote]
    /\ connection_results = [h \in Targets |-> NoResult]
    /\ results = [h \in Targets |-> NoResult]
    /\ idx = 0
    /\ rounds = 0
    /\ merged = 0
    /\ interrupts = 0
    /\ goodbyeCalls = 0
    /\ interruptedAt = "none"
    /\ rendered = 0
    /\ slept = 0
    /\ loopErrors = 0
    /\ elapsed = 0
    /\ deadline = [h \in Targets |-> -1]
    /\ config = DefaultConfig

\* 'return {target.host: self.parse_gpu_info(target.host, output)}'
ParseReply ==
    /\ pc = "parse"
    /\ results' = [results EXCEPT ![1] = Dict(1, parse_gpu_info(remote[1].doc))]
    /\ pc' = "parsed"
    /\ UNCHANGED <<keyExists, handlerInstalled, running, data, tableGen, table, liveRenderable,
                   jump_conn, connections, task, remote, connection_results, idx, rounds,
                   merged, interrupts, goodbyeCalls, interruptedAt, targets, max_widths,
                   rendered, slept, loopErrors, elapsed, deadline, config>>

ParseSpec == ParseInit /\ [][ParseReply]_vars

\* ------------------------------------------- errors that leave the with block
\* an exception that leaves the body of 'with Live' without reaching 'finally'
UnexpectedErrorNoCleanup ==
    /\ \/ pc = "conn_results"
       \/ pc = "poll_gather" /\ AllDone
       \/ pc \in {"poll_live_update", "sleep"}
    /\ pc' = "stopped"
    /\ UNCHANGED <<keyExists, handlerInstalled, running, data, tableGen, table, liveRenderable,
                jump_conn, connections, task, remote, connection_results, results, idx, rounds,
                merged, interrupts, goodbyeCalls, interruptedAt, targets, max_widths, rendered,
                slept, loopErrors, elapsed, deadline, config>>

\* an exception raised while the connection results are processed or shown
\* (outside the inner try), or one that the inner 'except Exception' does not
\* catch (a BaseException such as CancelledError) raised in the loop body: it
\* leaves the 'with Live' block, and the 'finally' clause runs
UnexpectedError ==
    /\ \/ pc = "conn_results"
       \/ pc = "poll_gather" /\ AllDone
       \/ pc \in {"poll_live_update", "sleep"}
    /\ pc' = "live_exit"
    /\ UNCHANGED <<keyExists, handlerInstalled, running, data, tableGen, table, liveRenderable,
                jump_conn, connections, task, remote, connection_results, results, idx, rounds,
                merged, interrupts, goodbyeCalls, interruptedAt, targets, max_widths, rendered,
                slept, loopErrors, elapsed, deadline, config>>

EscapeNext ==
    \/ MainNoKey
    \/ Main
    \/ RunStart
    \/ InitTable
    \/ LiveEnter
    \/ JumpConnected
    \/ JumpFailed
    \/ \E h \in Targets : OpenStart(h)
    \/ \E h \in Targets : OpenForwarded(h)
    \/ \E h \in Targets, out \in OpenOutcomes : OpenFinish(h, out)
    \/ OpenGathered
    \/ ProcessConnResult
    \/ ConnLiveUpdate
    \/ LoopEnter
    \/ LoopExit
    \/ \E h \in Targets : PollStart(h)
    \/ \E h \in Targets, reply \in FaultReplies : PollFinish(h, reply)
    \/ PollMerge
    \/ PollLiveUpdate
    \/ SleepDone
    \/ UnexpectedError
    \/ LiveExit
    \/ \E h \in Targets : CloseConn(h)
    \/ CloseJump
    \/ signal_handler

EscapeSpec == Init /\ [][EscapeNext]_vars

\* --------------------------------------------- generate_targets on its own
\* entries of config['targets']['individual']: plain host names, and dicts
\* that override the user name, the key path or both
IndividualEntries ==
    {[isstr |-> TRUE, host |-> <<"gpu02">>, username |-> Absent, key_path |-> Absent],
     [isstr |-> TRUE, host |-> <<"login">>, username |-> Absent, key_path |-> Absent],
     [isstr |-> FALSE, host |-> <<"gpu02">>, username |-> <<"alice">>, key_path |-> Absent],
     [isstr |-> FALSE, host |-> <<"login">>, username |-> Absent,
      key_path |-> <<"~/.ssh/login_key">>],
     [isstr |-> FALSE, host |-> <<"gpu01">>, username |-> <<"alice">>,
      key_path |-> <<"~/.ssh/login_key">>]}

\* entries of config['targets']['patterns'] with format "{prefix}{number:02}"
Patterns ==
    {[prefix |-> "gpu", start |-> a, end |-> b, username |-> u, key_path |-> Absent] :
        a \in 1..MaxNumber, b \in 1..MaxNumber, u \in {Absent, <<"bob">>}}

Configs ==
    {[username |-> DefaultUsername, key_path |-> DefaultKeyPath,
      individual |-> individual, patterns |-> patterns] :
        individual \in UNION {[1..n -> IndividualEntries] : n \in 0..MaxIndividual},
        patterns \in UNION {[1..n -> Patterns] : n \in 0..MaxPatterns}}

\* main() has loaded a configuration and found the key file
TargetsInit ==
    /\ pc = "main"
    /\ keyExists = TRUE
    /\ handlerInstalled = FALSE
    /\ running = TRUE
    /\ targets = <<>>
    /\ data = <<>>
    /\ max_widths = InitialWidths
    /\ tableGen = 0
    /\ table = NoTable
    /\ liveRenderable = NoTable
    /\ jump_conn = "none"
    /\ connections = <<>>
    /\ task = [h \in Targets |-> "none"]
    /\ remote = [h \in Targets |-> NoRemote]
    /\ connection_results = [h \in Targets |-> NoResult]
    /\ results = [h \in Targets |-> NoResult]
    /\ idx = 0
    /\ rounds = 0
    /\ merged = 0
    /\ interrupts = 0
    /\ goodbyeCalls = 0
    /\ interruptedAt = "none"
    /\ rendered = 0
    /\ slept = 0
    /\ loopErrors = 0
    /\ elapsed = 0
    /\ deadline = [h \in Targets |-> -1]
    /\ config \in Configs

TargetsSpec == TargetsInit /\ [][Main]_vars

\* =================================================================== claims
AfterPlaceholderPass == pc \notin {"main", "run", "init_table", "exited"}

ShutdownEntered == pc \in {"live_exit", "close_conns", "stopped"}

\* C1: after the initial "Connecting" pass the key set of GPUTable.data is
\* exactly the set of configured target hosts, in every reachable state.
C1_KeySetIsTargets == AfterPlaceholderPass => DOMAIN data = Targets

\* a run that failed to connect a host, polled, merged and stopped
C1_Witness ==
    /\ pc = "stopped"
    /\ merged >= 1
    /\ \E h \in Targets : ~HasConnection(h)
    /\ \E h \in Targets : HasConnection(h)
    /\ DOMAIN data = Targets

\* C2: a command that completes with a non-zero exit status is reported as
\* "Command failed: <stderr>", and a timeout as exactly "Timeout".
C2_CommandFailedReported ==
    \A h \in Targets :
        (pc = "poll_gather" /\ task[h] = "done" /\ HasConnection(h)) =>
            /\ (remote[h].kind = "completed" /\ remote[h].exit_status \notin {0, NoStatus})
                   => results[h].status = <<"Command", " ", "failed", ":", " ">> \o remote[h].stderr
            /\ remote[h].kind = "timeout" => results[h].status = <<"Timeout">>

\* C3: when the interrupt arrived during a poll round, the renderable the live
\* display holds while the sessions are closed (and at Stopped) is the farewell
\* panel, not a table.
C3_FarewellShownAtClose ==
    (pc \in {"close_conns", "stopped"} /\ interruptedAt = "poll_gather")
        => liveRenderable = Goodbye

\* C4: show_goodbye is never called before an interrupt and at most once,
\* however many interrupts are delivered; a cancelled run called it once.
C4_GoodbyeOnce ==
    /\ interrupts = 0 => goodbyeCalls = 0
    /\ goodbyeCalls <= 1
    /\ (pc = "stopped" /\ interrupts > 0) => goodbyeCalls = 1

AllSessionsClosed ==
    /\ jump_conn # "open"
    /\ \A h \in DOMAIN connections : connections[h] = "closed"

\* C5: after an interrupt the controller eventually reaches Stopped with every
\* session closed, provided every timeout-bounded operation resolves.
C5_InterruptLeadsToStopped == (interrupts > 0) ~> (pc = "stopped" /\ AllSessionsClosed)

\* C6: once running is false no poll round is started; a round in flight is
\* left only by merging the results of all its hosts, and no session is closed
\* while a started round is unmerged or a command is pending.
C6_Cooperative ==
    [][/\ ~running => rounds' = rounds
       /\ (pc = "poll_gather" /\ pc' # "poll_gather") =>
              /\ AllDone
              /\ merged' = rounds
              /\ \A h \in Targets : data'[h] = results[h].status
       /\ (\E h \in DOMAIN connections' : connections'[h] = "closed") =>
              /\ merged' = rounds'
              /\ \A h \in Targets : task'[h] \in {"none", "done"}]_vars

\* interrupted while a command was pending; the round was merged, then closed
C6_Witness ==
    /\ pc = "stopped"
    /\ interruptedAt = "poll_gather"
    /\ rounds = 1
    /\ merged = 1
    /\ \E h \in Targets : HasConnection(h) /\ data[h] = results[h].status
    /\ AllSessionsClosed

\* the controller's lifecycle state, read off the position of main()/run()
Rank ==
    CASE pc \in {"main", "run", "init_table", "live_enter"} -> 1
      [] pc \in {"jump_connect", "open_gather", "conn_results"} -> 2
      [] pc \in {"loop_test", "poll_gather", "poll_live_update", "sleep", "backoff"} -> 3
      [] pc \in {"live_exit", "close_conns"} -> 4
      [] OTHER -> 5

\* C7: the lifecycle only moves forward; a poll round starts only with the jump
\* session open and every open_connection resolved; once shutdown is entered
\* no coroutine is started or resumed and no session is opened.
C7_LifecycleForward ==
    [][/\ Rank' >= Rank
       /\ rounds' # rounds =>
              /\ jump_conn = "open"
              /\ \A h \in Targets : task[h] = "done" /\ connection_results[h] # NoResult
       /\ ShutdownEntered =>
              /\ task' = task
              /\ rounds' = rounds
              /\ results' = results
              /\ connection_results' = connection_results
              /\ DOMAIN connections' = DOMAIN connections
              /\ jump_conn' # jump_conn => jump_conn' = "closed"]_vars

\* a run that went through every lifecycle state
C7_Witness ==
    /\ pc = "stopped"
    /\ rounds >= 1
    /\ merged >= 1
    /\ jump_conn = "closed"
    /\ \E h \in Targets : HasConnection(h)

\* the result of host h in the fan-out run() is processing
FanoutResult(h) == IF pc = "conn_results" THEN connection_results[h] ELSE results[h]

RoundMerged == rounds >= 1 /\ merged = rounds /\ pc # "poll_gather"

MalformedReply(h) ==
    remote[h].kind = "completed" /\ remote[h].exit_status = 0 /\ ~remote[h].doc.wellformed

\* the status a host gets from its own session and its own reply alone
OwnStatus(g) == IF HasConnection(g) THEN CheckOutcome(remote[g]) ELSE StatusNoConnection

\* C9: after a round in which host h returned a malformed document, h's entry
\* is the one-line XML parse error and every other host's entry is the status
\* its own reply alone determines.
C9_ParseErrorIsolated ==
    RoundMerged =>
        \A h \in Targets :
            (HasConnection(h) /\ MalformedReply(h)) =>
                /\ data[h] = <<"XML parse error", ":", " ">> \o MsgXMLSyntax
                /\ \A i \in 1..Len(data[h]) : data[h][i] # "\n"
                /\ \A g \in Targets \ {h} : data[g] = OwnStatus(g)

\* one host returned a malformed document, another a well-formed one
C9_Witness ==
    /\ RoundMerged
    /\ \E h, g \in Targets :
          /\ h < g
          /\ HasConnection(h) /\ MalformedReply(h)
          /\ HasConnection(g) /\ remote[g].kind = "completed" /\ remote[g].doc = DocOne
          /\ data[g] = GPUInfoStr(ParseGpu(GpuTesla))

\* C10: every finished open_connection returned a result for its own host that
\* its own outcome alone determines, and stored a session for its own host if
\* and only if its own connect succeeded.
C10_OpenTargetIsolated ==
    (pc \in {"open_gather", "conn_results", "loop_test"} /\ rounds = 0) =>
        /\ \A h \in Targets :
              IF task[h] = "done"
              THEN /\ connection_results[h].isdict
                   /\ connection_results[h].host = h
                   /\ CASE remote[h].kind = "connected" ->
                             connection_results[h].status = <<"Connected">>
                        [] remote[h].kind \in {"fwd_timeout", "conn_timeout"} ->
                             connection_results[h].status = <<"Connection", " ", "timeout">>
                        [] OTHER ->
                             StartsWith(connection_results[h].status,
                                        <<"Connection", " ", "error", ":", " ">>)
                   /\ HasConnection(h) <=> remote[h].kind = "connected"
              ELSE connection_results[h] = NoResult /\ ~HasConnection(h)
        /\ \A h \in DOMAIN connections : connections[h] = "open"

\* one target failed authentication, another one connected
C10_Witness ==
    /\ pc = "loop_test"
    /\ rounds = 0
    /\ \E h, g \in Targets :
          /\ remote[h].kind = "auth_error" /\ ~HasConnection(h)
          /\ remote[g].kind = "connected" /\ HasConnection(g)
          /\ connection_results[g].status = <<"Connected">>

\* the connection state of a host, read from what open_connection stored and
\* returned for it
ConnState(conns, conn_results, h) ==
    IF h \in DOMAIN conns THEN "Connected"
    ELSE IF conn_results[h] # NoResult THEN "Failed"
    ELSE "Pending"

\* C11: the connection state of a host changes at most once, out of Pending; a
\* failed host is never connected later; a stored session is never removed, and
\* it stays the open session it was until the finally clause closes it.
C11_ConnectionStateOnce ==
    [][\A h \in Targets :
          /\ ConnState(connections', connection_results', h)
                 # ConnState(connections, connection_results, h)
                 => ConnState(connections, connection_results, h) = "Pending"
          /\ HasConnection(h) => h \in DOMAIN connections'
          /\ (HasConnection(h) /\ pc # "close_conns") => connections'[h] = "open"
          /\ (ConnState(connections, connection_results, h) = "Failed")
                 => connection_results'[h] = connection_results[h]]_vars

\* the second round of a run with a failed host and a connected host whose
\* command timed out in both rounds: the session is still the stored one
C11_Witness ==
    /\ pc = "poll_gather"
    /\ rounds = 2
    /\ \E h \in Targets :
          /\ ConnState(connections, connection_results, h) = "Connected"
          /\ connections[h] = "open"
          /\ data[h] = <<"Timeout">>
          /\ remote[h].kind = "timeout"
    /\ \E h \in Targets :
          /\ ConnState(connections, connection_results, h) = "Failed"
          /\ results[h] = Dict(h, StatusNoConnection)

\* a close() call was made on the session: it returned or it raised
CloseAttempted(state) == state \in {"closed", "close_failed"}

\* C12: the finally clause closes every per-target session before the jump
\* session, and a close() that raises is swallowed: when run() has returned,
\* close() was called on every stored session and on the jump session.
C12_CloseAllSwallows ==
    /\ CloseAttempted(jump_conn)
           => \A h \in DOMAIN connections : CloseAttempted(connections[h])
    /\ pc = "stopped"
           => /\ \A h \in DOMAIN connections : CloseAttempted(connections[h])
              /\ jump_conn # "open"

\* run() returned after the close() of one target session raised: another
\* target session and the jump session were closed all the same
C12_Witness ==
    /\ pc = "stopped"
    /\ \E h \in DOMAIN connections : connections[h] = "close_failed"
    /\ \E h \in DOMAIN connections : connections[h] = "closed"
    /\ jump_conn = "closed"

\* C13: in every poll round a host without a stored session gets the status
\* "No connection" and no command is run for it; a command is run (and a reply
\* received) only for hosts that hold a session.
C13_NoConnectionShortCircuit ==
    \A h \in Targets :
        /\ pc = "poll_gather" =>
              /\ task[h] = "running" => HasConnection(h)
              /\ remote[h] # NoRemote => HasConnection(h)
              /\ (task[h] = "done" /\ ~HasConnection(h))
                     => results[h] = Dict(h, StatusNoConnection)
        /\ (pc \in {"poll_live_update", "sleep"} /\ ~HasConnection(h))
               => /\ remote[h] = NoRemote
                  /\ data[h] = StatusNoConnection

\* a resolved round with a host that has no session and a host whose command
\* completed
C13_Witness ==
    /\ pc = "poll_gather"
    /\ AllDone
    /\ \E h \in Targets :
          /\ ~HasConnection(h)
          /\ results[h] = Dict(h, StatusNoConnection)
          /\ remote[h] = NoRemote
    /\ \E h \in Targets : HasConnection(h) /\ remote[h].kind = "completed"

\* C14 as stated: when a round runs its commands, every earlier round was
\* merged, rendered and followed by the refresh wait.
C14_MergedRenderedSlept ==
    pc = "poll_gather" => /\ merged = rounds - 1
                          /\ rendered = rounds - 1
                          /\ slept = rounds - 1

\* C14: rounds never overlap.  A round is entered from the loop test only, with
\* every coroutine of the round before resolved; the loop test is reached from
\* the refresh wait or from the back-off of the handler; every earlier round
\* either was merged, rendered and followed by the refresh wait, or raised.
C14_RoundsDoNotOverlap ==
    /\ [](/\ (rounds >= 1 /\ pc # "poll_gather") => AllDone
          /\ pc = "poll_gather" => /\ slept + loopErrors = rounds - 1
                                   /\ rendered = slept
                                   /\ slept <= merged
                                   /\ merged <= rounds - 1)
    /\ [][/\ rounds' # rounds => (pc = "loop_test" /\ AllDone /\ rounds' = rounds + 1)
          /\ (pc' = "loop_test" /\ pc # "loop_test")
                 => pc \in {"conn_results", "sleep", "backoff"}
          /\ slept' # slept => pc = "sleep"
          /\ rendered' # rendered => pc = "poll_live_update"
          /\ merged' # merged => (pc = "poll_gather" /\ AllDone)]_vars

\* the second round runs a command; the first was merged, rendered and slept on
C14_Witness ==
    /\ pc = "poll_gather"
    /\ rounds = 2
    /\ merged = 1
    /\ rendered = 1
    /\ slept = 1
    /\ \E h \in Targets : task[h] = "running"

\* C15: on the clock, a poll round is over no later than one per-host timeout
\* after it started, however many hosts are polled and never answer: every
\* command of the round has its deadline one timeout after the round's start.
C15_RoundWithinOneTimeout ==
    rounds >= 1 =>
        /\ elapsed <= TimeoutTicks
        /\ \A h \in Targets : task[h] = "running" => deadline[h] = TimeoutTicks
        /\ \A h \in Targets : remote[h] = [kind |-> "timeout"] => elapsed = TimeoutTicks

\* a round in which every host holds a session and none answered: all commands
\* have timed out and one timeout has passed since the round started
C15_Witness ==
    /\ pc = "poll_gather"
    /\ AllDone
    /\ \A h \in Targets : HasConnection(h) /\ remote[h].kind = "timeout"
    /\ elapsed = TimeoutTicks

\* C16: an exception raised by the merge or by the render of a round is caught
\* in the loop: the handler runs, the back-off follows, and the loop test is
\* reached again, where only a cleared 'running' flag ends the loop; the
\* snapshot keeps the key set and the sessions stay open.
C16_RoundErrorHandled ==
    /\ [](/\ pc = "backoff" =>
                /\ loopErrors >= 1
                /\ DOMAIN data = Targets
                /\ jump_conn = "open"
                /\ \A h \in DOMAIN connections : connections[h] = "open"
          /\ (loopErrors >= 1 /\ pc \in {"live_exit", "close_conns", "stopped"})
                 => interrupts >= 1
          /\ (pc = "loop_test" /\ running /\ rounds < MaxRounds)
                 => (ENABLED LoopEnter) /\ ~(ENABLED LoopExit))
    /\ [][/\ loopErrors' # loopErrors
                 => /\ pc' = "backoff"
                    /\ data' = data
                    /\ connections' = connections
          /\ (pc = "backoff" /\ pc' # pc) => pc' = "loop_test"]_vars

\* a round that runs its commands after the round before raised in the merge,
\* with no interrupt so far
C16_Witness ==
    /\ pc = "poll_gather"
    /\ rounds = 2
    /\ loopErrors = 1
    /\ merged = 0
    /\ interrupts = 0
    /\ \E h \in Targets : task[h] = "running"

\* C17: without an interrupt the program halts for a missing key file or for a
\* failed jump connect only.  After a failed jump connect no open_connection
\* was started, no round ran, and nothing stands between the controller and
\* Stopped.  No outcome of a per-host connect or command is an exception in the
\* lists run() reads, and the loop is left with a session to the jump host only
\* after an interrupt.
C17_OnlyFatalPaths ==
    /\ pc = "exited" => ~keyExists
    /\ (ShutdownEntered /\ interrupts = 0) => jump_conn = "none"
    /\ (ShutdownEntered /\ jump_conn = "none") =>
           /\ rounds = 0
           /\ connections = <<>>
           /\ \A h \in Targets : task[h] = "none" /\ connection_results[h] = NoResult
           /\ pc = "live_exit" => ENABLED LiveExit
           /\ pc = "close_conns" => ENABLED CloseJump
    /\ \A h \in Targets :
           /\ \A out \in OpenOutcomes : OpenResult(h, out).isdict
           /\ \A reply \in AllReplies : check_single_target(h, reply).isdict
           /\ connection_results[h] # NoResult => connection_results[h].isdict
           /\ results[h] # NoResult => results[h].isdict

\* run() has returned, without an interrupt, because the jump connect failed
C17_Witness ==
    /\ pc = "stopped"
    /\ keyExists
    /\ interrupts = 0
    /\ jump_conn = "none"
    /\ rounds = 0

\* C18: when the key file does not exist, main() returns from its start: no
\* targets are generated, no GPUTable is built or shown, no signal handler is
\* installed, no connect is attempted and no round runs.
C18_MissingKeyStopsInStarting ==
    ~keyExists =>
        /\ pc \in {"main", "exited"}
        /\ targets = <<>>
        /\ data = <<>>
        /\ tableGen = 0
        /\ table = NoTable
        /\ liveRenderable = NoTable
        /\ ~handlerInstalled
        /\ jump_conn = "none"
        /\ connections = <<>>
        /\ \A h \in Targets : task[h] = "none" /\ remote[h] = NoRemote
        /\ rounds = 0
        /\ goodbyeCalls = 0

\* main() has returned because the key file is missing
C18_Witness ==
    /\ pc = "exited"
    /\ ~keyExists
    /\ targets = <<>>
    /\ tableGen = 0

\* new_data holds nothing the snapshot does not hold already
SameData(new_data) ==
    \A h \in DOMAIN new_data : h \in DOMAIN data /\ data[h] = new_data[h]

\* C19: once update_table has run, running it again with data the snapshot
\* already holds gives the same rows, cell for cell, and the same widths, both
\* the tracked ones and those of the columns of the new table.
C19_RenderIdempotent ==
    tableGen >= 2 =>
        \A new_data \in RenderInputs :
            SameData(new_data) =>
                /\ UpdateTable(new_data).data = data
                /\ UpdateTable(new_data).table.rows = table.rows
                /\ UpdateTable(new_data).table.min_width = table.min_width
                /\ UpdateTable(new_data).max_widths = max_widths

\* two calls for one host that reports two devices: the table holds the two
\* rows of the host, and columns have grown beyond their initial widths
C19_Witness ==
    /\ tableGen = 3
    /\ \E h \in Targets :
          /\ DOMAIN data = {h}
          /\ data[h] = Outcome[[kind |-> "completed", exit_status |-> 0,
                                stderr |-> <<>>, doc |-> DocTwo]]
    /\ Len(table.rows) = 2
    /\ max_widths # InitialWidths
    /\ \E new_data \in RenderInputs : SameData(new_data)

\* the rows of the snapshot that show a recognised status or a device entry:
\* all rows but the "Parse error" row update_table makes up for an entry it
\* cannot take apart
ContributedRows(h) ==
    LET rows == Rows[h][data[h]] IN
    {rows[i] : i \in {j \in 1..Len(rows) :
                         IsStatusText(data[h])
                         \/ ~StartsWith(rows[j][2], <<"Parse", " ", "error">>)}}

\* C20: over the calls of update_table no column width ever decreases or is
\* below its initial value; after a call every width is at least the length of
\* each cell, other than the placeholder, that a recognised status or a device
\* entry of the snapshot puts into the column, and the columns of the new table
\* are created at these widths.
C20_WidthsMonotone ==
    /\ [](\A k \in 1..Len(Columns) :
             /\ max_widths[Columns[k]] >= InitialWidths[Columns[k]]
             /\ tableGen >= 2 =>
                   /\ table.min_width = max_widths
                   /\ \A h \in DOMAIN data : \A row \in ContributedRows(h) :
                          row[k] # Placeholder => max_widths[Columns[k]] >= TextLen(row[k]))
    /\ [][\A k \in 1..Len(Columns) : max_widths'[Columns[k]] >= max_widths[Columns[k]]]_vars

\* the snapshot holds one short status, after a call that had made the host
\* name and a long status widen their columns: the widths have stayed
C20_Witness ==
    /\ tableGen >= 3
    /\ \E h \in Targets : DOMAIN data = {h} /\ data[h] = StatusConnecting
    /\ max_widths["Hostname"] > InitialWidths["Hostname"]
    /\ max_widths["Status/Model"] > InitialWidths["Status/Model"]
    /\ table.min_width = max_widths

\* the documents the parser turns into device records, one per <gpu> node
DeviceDocs ==
    {d \in Docs : /\ d.wellformed
                  /\ Len(d.gpus) >= 1
                  /\ \A k \in 1..Len(d.gpus) :
                         /\ ~GpuIncomplete(d.gpus[k])
                         /\ Occurrences(d.gpus[k].product_name, "|") = {}}

\* the device records behind a status, if it is a sequence of device records
DevicesOf(status) ==
    IF \E d \in DeviceDocs : parse_gpu_info(d) = status
    THEN (CHOOSE d \in DeviceDocs : parse_gpu_info(d) = status).gpus
    ELSE <<>>

\* a status of several lines that is not a sequence of device records
MixedStatus(status) == Occurrences(status, "\n") # {} /\ DevicesOf(status) = <<>>

\* the host a row names in its hostname cell (0: the cell is empty)
RowHost(row) ==
    IF \E h \in Targets : row[1] = HostName(h)
    THEN CHOOSE h \in Targets : row[1] = HostName(h)
    ELSE 0

\* the rows of the table that name host h
RowsOf(h) == {i \in 1..Len(table.rows) : table.rows[i][1] = HostName(h)}

\* row i is the last row or the next row names a host
BlockEndsAt(i) == i = Len(table.rows) \/ table.rows[i + 1][1] # <<>>

C22_StatusShownAsIs ==
    (tableGen >= 2 /\ table.kind = "table") =>
        \A h \in DOMAIN data :
            (DevicesOf(data[h]) = <<>> /\ data[h] # <<>> /\ ~MixedStatus(data[h])) =>
                \E i \in 1..Len(table.rows) :
                    table.rows[i] = <<HostName(h), data[h], Placeholder, Placeholder,
                                      Placeholder, Placeholder>>

\* the name filter of the claim's example: it matches the process name p1
ClaimedFilter(name) == name = <<"p1">>

\* the device record the claim describes for a <gpu> node
ClaimedRecord(gpu) ==
    [model |-> gpu.product_name,
     num_procs |-> IF gpu.procs = NoField THEN 0
                   ELSE Cardinality({k \in 1..Len(gpu.procs) : ClaimedFilter(gpu.procs[k])}),
     gpu_util |-> SubSeq(gpu.gpu_util, 1, Len(gpu.gpu_util) - 2),
     used_mem |-> SubSeq(gpu.used, 1, Len(gpu.used) - 2),
     total_mem |-> SubSeq(gpu.total, 1, Len(gpu.total) - 2)]

\* every <gpu> node of the document has its required fields
CompleteDoc(doc) ==
    /\ doc.wellformed
    /\ \A k \in 1..Len(doc.gpus) :
           ~GpuIncomplete(doc.gpus[k]) /\ doc.gpus[k].product_name # NoText

ErrorString(status, prefix) ==
    /\ StartsWith(status, prefix \o <<":", " ">>)
    /\ Occurrences(status, "\n") = {}
    /\ Occurrences(status, "|") = {}

\* C24: the parser returns a text for every document.  When a <gpu> node of a
\* well-formed document lacks the model name, the utilization or a memory
\* field, the text is one error string without any device record, whatever the
\* other nodes hold; a malformed document gives the XML parse error.
C24_AllOrNothing ==
    pc = "parsed" =>
        LET doc == remote[1].doc
            status == results[1].status
        IN /\ results[1].isdict
           /\ results[1].host = 1
           /\ ~doc.wellformed => ErrorString(status, <<"XML parse error">>)
           /\ (doc.wellformed /\ ~CompleteDoc(doc)) =>
                  \/ ErrorString(status, <<"Error", " ", "parsing GPU info">>)
                  \/ ErrorString(status, <<"Parse", " ", "error">>)
           /\ CompleteDoc(doc) => Cardinality(Occurrences(status, "\n")) + 1
                                      = Max(Len(doc.gpus), 1)

\* a document whose first node is complete and whose last node lacks the model
\* name has been parsed into the error string
C24_Witness ==
    /\ pc = "parsed"
    /\ Len(remote[1].doc.gpus) >= 2
    /\ remote[1].doc.gpus[1] = GpuTesla
    /\ remote[1].doc.gpus[Len(remote[1].doc.gpus)] = GpuNoName
    /\ results[1].status = <<"Error", " ", "parsing GPU info", ":", " ">> \o MsgNoneText

\* the hosts a configuration names: the individual entries, then for each
\* pattern the numbers start, start + 1, ..., end with two digits
RECURSIVE NumberedHosts(_, _, _)
NumberedHosts(prefix, x, end) ==
    IF x > end THEN <<>>
    ELSE <<<<prefix \o (IF x < 10 THEN "0" ELSE "") \o ToString(x)>>>>
             \o NumberedHosts(prefix, x + 1, end)

RECURSIVE PatternHosts(_)
PatternHosts(patterns) ==
    IF patterns = <<>> THEN <<>>
    ELSE NumberedHosts(Head(patterns).prefix, Head(patterns).start, Head(patterns).end)
             \o PatternHosts(Tail(patterns))

NamedHosts(cfg) ==
    [k \in 1..Len(cfg.individual) |-> cfg.individual[k].host] \o PatternHosts(cfg.patterns)

HostsOf(ts) == [k \in 1..Len(ts) |-> ts[k].host]

\* C25: every number from start to end of a pattern gives one host of the
\* returned list, and a pattern with start > end gives none; when the
\* configuration names no host twice, the returned hosts are the individual
\* ones followed by each pattern's hosts in ascending number order.
C25_PatternExpansion ==
    pc = "run" =>
        LET named == NamedHosts(config)
        IN /\ {targets[k].host : k \in 1..Len(targets)} = {named[k] : k \in 1..Len(named)}
           /\ Cardinality({named[k] : k \in 1..Len(named)}) = Len(named)
                  => HostsOf(targets) = named

\* the pattern gpu 1..3 behind the individual target login has been expanded
C25_Witness ==
    /\ pc = "run"
    /\ Len(config.individual) = 1
    /\ config.individual[1].host = <<"login">>
    /\ Len(config.patterns) = 1
    /\ config.patterns[1].start = 1
    /\ config.patterns[1].end = 3
    /\ HostsOf(targets) = <<<<"login">>, <<"gpu01">>, <<"gpu02">>, <<"gpu03">>>>

\* the position of the first target of a list that names the host
FirstIndex(ts, host) == CHOOSE i \in 1..Len(ts) :
    /\ ts[i].host = host
    /\ \A j \in 1..(i - 1) : ts[j].host # host

\* C26: the returned list names every configured host once; the target kept
\* for a host is the first one that names it in the list of individual targets
\* followed by pattern targets, with that target's user name and key path, and
\* the kept targets stand in the order of those first occurrences.
C26_FirstOccurrenceKept ==
    pc = "run" =>
        LET listed == AllTargets(config)
        IN /\ \A k, l \in 1..Len(targets) : k # l => targets[k].host # targets[l].host
           /\ \A i \in 1..Len(listed) : \E k \in 1..Len(targets) : targets[k].host = listed[i].host
           /\ \A k \in 1..Len(targets) :
                  /\ \E i \in 1..Len(listed) : listed[i].host = targets[k].host
                  /\ targets[k] = listed[FirstIndex(listed, targets[k].host)]
           /\ \A k, l \in 1..Len(targets) :
                  k < l => FirstIndex(listed, targets[k].host) < FirstIndex(listed, targets[l].host)

\* gpu02 is named by an individual entry of user alice and again by a pattern
\* of user bob: the returned list holds it once, as alice's, before gpu01
C26_Witness ==
    /\ pc = "run"
    /\ Len(config.individual) = 1
    /\ config.individual[1].host = <<"gpu02">>
    /\ config.individual[1].username = <<"alice">>
    /\ Len(config.patterns) = 1
    /\ config.patterns[1].username = <<"bob">>
    /\ config.patterns[1].start = 1
    /\ config.patterns[1].end = 2
    /\ targets = <<Target(<<"gpu02">>, <<"alice">>, DefaultKeyPath),
                   Target(<<"gpu01">>, <<"bob">>, DefaultKeyPath)>>

\* the mapping run() hands to update_table at this point: the one connection
\* result being processed, or the dict results of the round that has ended
MergeInput ==
    IF pc = "conn_results"
    THEN IF idx <= NumHosts /\ connection_results[idx].isdict
         THEN [h \in {connection_results[idx].host} |-> connection_results[idx].status]
         ELSE <<>>
    ELSE [h \in {results[g].host : g \in {x \in Targets : results[x].isdict}} |->
             results[CHOOSE g \in Targets : results[g].isdict /\ results[g].host = h].status]

\* the rows of a table from the row that names the host up to the next named row
BlockOf(rows, h) ==
    LET first == CHOOSE i \in 1..Len(rows) : rows[i][1] = HostName(h)
        last == CHOOSE j \in first..Len(rows) :
                    /\ \A k \in (first + 1)..j : rows[k][1] = <<>>
                    /\ j = Len(rows) \/ rows[j + 1][1] # <<>>
    IN SubSeq(rows, first, last)

\* C27: a merge gives every host of the merged results its new status, keeps
\* the status of every other host, and the rebuilt table holds for each host
\* the rows of its current status only.
C27_MergeReplacesStatus ==
    [][(pc \in {"conn_results", "poll_gather"} /\ tableGen' = tableGen + 1) =>
          /\ DOMAIN data' = DOMAIN data \cup DOMAIN MergeInput
          /\ \A h \in DOMAIN MergeInput : data'[h] = MergeInput[h]
          /\ \A h \in DOMAIN data \ DOMAIN MergeInput : data'[h] = data[h]
          /\ \A h \in DOMAIN data' :
                 /\ \E i \in 1..Len(table'.rows) : table'.rows[i][1] = HostName(h)
                 /\ BlockOf(table'.rows, h) = HostRows(HostName(h), data'[h])]_vars

\* the second round has ended with "Timeout" for a host whose row in the table
\* is the device row of the first round: the merge leaves it the status row
C27_Witness ==
    /\ pc = "poll_gather"
    /\ AllDone
    /\ merged = 1
    /\ table.kind = "table"
    /\ \E h \in DOMAIN data :
           /\ BlockOf(table.rows, h) = HostRows(HostName(h), data[h])
           /\ BlockOf(table.rows, h)[1][3] # Placeholder
           /\ results[h] = Dict(h, <<"Timeout">>)
           /\ UpdateTable(MergeInput).data[h] = <<"Timeout">>
           /\ BlockOf(UpdateTable(MergeInput).table.rows, h)
                  = <<StatusRow(HostName(h), <<"Timeout">>)>>

\* a coroutine of a fan-out that has been started and has not finished
Pending(h) == task[h] \in {"forwarding", "connecting", "running"}

\* C28: in both fan-outs no started operation is resumed while a coroutine of
\* the fan-out has still to be started, and in a round a pending command of one
\* host does not keep the command of another host from completing before the
\* timeout.
C28_FanOutLaunchesAllFirst ==
    /\ [][\A h \in Targets :
              (Pending(h) /\ task'[h] # task[h]) => \A g \in Targets : task[g] # "created"]_vars
    /\ [](\A g, h \in Targets :
              (/\ pc = "poll_gather"
               /\ g # h
               /\ AllStarted
               /\ task[g] = "running"
               /\ task[h] = "running"
               /\ elapsed < deadline[g])
                  => ENABLED TimedPollFinish(g, [kind |-> "completed", exit_status |-> 0,
                                                 stderr |-> <<>>, doc |-> DocOne]))

\* a round in which one host answered with its device before the timeout while
\* the command of another host stayed pending until the timeout
C28_Witness ==
    /\ pc = "poll_gather"
    /\ AllDone
    /\ elapsed = TimeoutTicks
    /\ \E g, h \in Targets :
           /\ g < h
           /\ remote[g] = [kind |-> "timeout"]
           /\ results[g] = Dict(g, <<"Timeout">>)
           /\ remote[h].kind = "completed"
           /\ remote[h].doc = DocOne
           /\ results[h] = Dict(h, GPUInfoStr(ParseGpu(GpuTesla)))

\* C29: when run() has returned, every session that open_connection obtained
\* is stored and closed, and the jump session is closed if it was established;
\* a stored session stays stored until then.
C29_SessionsClosedWhenStopped ==
    /\ [](pc = "stopped" =>
              /\ \A h \in Targets :
                     connection_results[h] = Dict(h, StatusConnected) => h \in DOMAIN connections
              /\ \A h \in DOMAIN connections : connections[h] = "closed"
              /\ jump_conn \in {"none", "closed"})
    /\ [][/\ DOMAIN connections \subseteq DOMAIN connections'
          /\ jump_conn # "none" => jump_conn' # "none"]_vars

\* run() has returned, without an interrupt, after an error while the results
\* of the connection attempts were processed: the sessions stored by then and
\* the jump session are closed
C29_Witness ==
    /\ pc = "stopped"
    /\ interrupts = 0
    /\ idx <= NumHosts
    /\ rounds = 0
    /\ jump_conn = "closed"
    /\ DOMAIN connections # {}
    /\ \A h \in DOMAIN connections : connections[h] = "closed"

\* C30: in every rendered table each host of the snapshot is named in the
\* hostname cell of exactly one row.
C30_OneNamedRowPerHost ==
    (tableGen >= 2 /\ table.kind = "table") =>
        \A h \in DOMAIN data : Cardinality(RowsOf(h)) = 1

\* the states from the end of the open fan-out up to the end of the loop
ConnectedPhase ==
    \/ pc \in {"conn_results", "loop_test", "poll_gather", "poll_live_update", "sleep",
               "backoff"}
    \/ pc = "open_gather" /\ AllDone

\* C31: from the end of the open fan-out until shutdown a host holds a stored
\* session exactly when open_connection returned "Connected" for it, a host
\* with "Connection timeout" or "Connection error: ..." holds none, and a step
\* that stores a session is the end of that host's own open_connection and
\* touches no other host's entry.
C31_SessionIffConnected ==
    /\ [](ConnectedPhase =>
              \A h \in Targets :
                  /\ HasConnection(h) <=> connection_results[h] = Dict(h, StatusConnected)
                  /\ HasConnection(h) => connections[h] = "open"
                  /\ (\/ connection_results[h] = Dict(h, StatusConnectionTimeout)
                      \/ StartsWith(connection_results[h].status,
                                    <<"Connection", " ", "error", ":", " ">>))
                         => ~HasConnection(h))
    /\ [][\A h \in Targets :
              (~HasConnection(h) /\ h \in DOMAIN connections') =>
                  /\ pc = "open_gather"
                  /\ task[h] = "connecting"
                  /\ task'[h] = "done"
                  /\ connection_results'[h] = Dict(h, StatusConnected)
                  /\ \A g \in Targets \ {h} :
                         /\ (g \in DOMAIN connections') = HasConnection(g)
                         /\ HasConnection(g) => connections'[g] = connections[g]
                         /\ connection_results'[g] = connection_results[g]]_vars

\* the second poll round of a run in which the connect of one host timed out
\* and the other host connected: only the second holds a session
C31_Witness ==
    /\ pc = "poll_gather"
    /\ rounds = 2
    /\ \E h, g \in Targets :
           /\ connection_results[h] = Dict(h, StatusConnectionTimeout)
           /\ ~HasConnection(h)
           /\ connection_results[g] = Dict(g, StatusConnected)
           /\ HasConnection(g)
           /\ connections[g] = "open"

\* the first interrupt arrived while run() was connecting: at the jump connect,
\* in the open fan-out or while its results were processed
InterruptedConnecting == interruptedAt \in {"jump_connect", "open_gather", "conn_results"}

\* an upper bound on the steps run() still has to take once it is interrupted
\* while connecting: the statements ahead of it, the steps the open_connection
\* coroutines have left, the results to process and the sessions to close
StepsLeft ==
    LET ahead == CASE pc = "jump_connect" -> 6
                   [] pc = "open_gather" -> 5
                   [] pc = "conn_results" -> 4
                   [] pc = "loop_test" -> 3
                   [] pc = "live_exit" -> 2
                   [] pc = "close_conns" -> 1
                   [] OTHER -> 0
        left(t) == CASE t \in {"none", "created"} -> 3
                     [] t = "forwarding" -> 2
                     [] t = "connecting" -> 1
                     [] OTHER -> 0
        RECURSIVE Sum(_)
        Sum(hs) == IF hs = {} THEN 0
                   ELSE LET h == CHOOSE x \in hs : TRUE IN 2 * left(task[h]) + Sum(hs \ {h})
    IN 10 * (NumHosts + 1) * ahead + Sum(Targets) + (NumHosts + 1 - idx)
           + Cardinality(ToClose)

\* C32: after an interrupt in the connecting phase no poll round is started;
\* run() still leaves the open fan-out only when every open_connection has
\* returned, processes every result, and goes from the loop test to the finally
\* clause; when it has returned, every stored session and the jump session are
\* closed.  Once the jump connect has resolved, run() can always take a next
\* step until it has returned (in the loop over the results: there is a next
\* result, a dict, to hand to update_table), and each step brings it nearer to
\* that.
C32_InterruptWhileConnecting ==
    /\ [](InterruptedConnecting =>
              /\ rounds = 0
              /\ pc \notin {"poll_gather", "poll_live_update", "sleep", "backoff"}
              /\ (ShutdownEntered /\ jump_conn # "none") =>
                     /\ AllDone
                     /\ idx > NumHosts
                     /\ \A h \in Targets :
                            HasConnection(h) <=> connection_results[h] = Dict(h, StatusConnected)
              /\ pc = "stopped" => AllSessionsClosed
              /\ pc = "open_gather" =>
                     ENABLED (\/ \E h \in Targets : OpenStart(h)
                              \/ \E h \in Targets : OpenForwarded(h)
                              \/ \E h \in Targets, out \in OpenOutcomes : OpenFinish(h, out)
                              \/ OpenGathered)
              /\ pc = "conn_results" =>
                     IF idx > NumHosts THEN ENABLED ConnLiveUpdate
                     ELSE idx \in 1..NumHosts /\ connection_results[idx].isdict
              /\ pc = "loop_test" => ENABLED LoopExit
              /\ pc = "live_exit" => ENABLED LiveExit
              /\ pc = "close_conns" => ENABLED (CloseJump \/ \E h \in Targets : CloseConn(h)))
    /\ [][/\ (InterruptedConnecting /\ pc' # pc) =>
                 CASE pc = "jump_connect" -> pc' \in {"open_gather", "live_exit"}
                   [] pc = "open_gather" -> AllDone /\ pc' = "conn_results"
                   [] pc = "conn_results" -> idx > NumHosts /\ pc' = "loop_test"
                   [] pc = "loop_test" -> pc' = "live_exit"
                   [] pc = "live_exit" -> pc' = "close_conns"
                   [] pc = "close_conns" -> pc' = "stopped"
                   [] OTHER -> FALSE
          /\ (InterruptedConnecting /\ interrupts' = interrupts) => StepsLeft' < StepsLeft]_vars

\* run() has returned after an interrupt that arrived while an open_connection
\* was pending: no round ran, and the session that fan-out stored is closed
C32_Witness ==
    /\ pc = "stopped"
    /\ interruptedAt = "open_gather"
    /\ rounds = 0
    /\ AllDone
    /\ \E h \in Targets : HasConnection(h) /\ connections[h] = "closed"
    /\ \E h \in Targets : ~HasConnection(h)
    /\ jump_conn = "closed"

====
